---- MODULE Spec2Model ----
(***************************************************************************)
(* Model of the Gemara authoring tool kit (package tools): the CUE schema  *)
(* cache, PerformCUEValidation, the raw-YAML store handlers, the           *)
(* load-from-file handlers, the layer-1 read handlers with their           *)
(* fill-on-miss cache, and the relationship resolver.                      *)
(*                                                                         *)
(* The type ArtifactStorage (NewArtifactStorage, List, Retrieve, Add,      *)
(* StoreRawYAML) is not among the source files; it is modelled from the    *)
(* contract of the artifact store in the specification, section 4.3.       *)
(***************************************************************************)
EXTENDS Integers, Sequences, FiniteSets, TLC

VARIABLES
    storage,        \* g.storage != nil
    files,          \* ArtifactStorage: persisted content, layer -> id -> YAML
    index,          \* ArtifactStorage: index, layer -> id -> title
    layer1Guidance, \* g.layer1Guidance  map[string]*layer1.GuidanceDocument
    layer2Catalogs, \* g.layer2Catalogs  map[string]*layer2.Catalog
    layer3Policies, \* g.layer3Policies  map[string]*layer3.PolicyDocument
    schemaCache,    \* g.schemaCache     map[int]string
    upstream,       \* the schema text the remote source serves, per cache key
    fetched,        \* history: successful remote fetches per cache key, this process
    stored,         \* history: <<layer, id>> -> number of successful Add / StoreRawYAML
    last,           \* history: the last operation, its arguments and its result
    inflight        \* requests suspended in a blocking call, request -> where

vars == <<storage, files, index, layer1Guidance, layer2Catalogs, layer3Policies,
          schemaCache, upstream, fetched, stored, last, inflight>>

storeVars == <<files, index>>
cacheVars == <<layer1Guidance, layer2Catalogs, layer3Policies>>

-----------------------------------------------------------------------------
(* Bounds of the model.                                                    *)

\* cap of the history counter of successful remote fetches per schema
MaxFetched == 2
\* cap of the history counter of successful store writes per layer and id
MaxStored == 2

-----------------------------------------------------------------------------
(* Go maps as functions with a varying domain.                             *)

EmptyMap == [k \in {} |-> 0]

Min(a, b) == IF a < b THEN a ELSE b

Has(m, k) == k \in DOMAIN m

Put(m, k, v) == [x \in (DOMAIN m) \cup {k} |-> IF x = k THEN v ELSE m[x]]

\* the elements of a sequence
Range(s) == {s[i] : i \in 1..Len(s)}

\* the concatenation of a sequence of sequences
RECURSIVE Concat(_)
Concat(ss) == IF ss = <<>> THEN <<>> ELSE Head(ss) \o Concat(Tail(ss))

\* the orders in which a range loop over a Go map may visit the keys
Orders(S) == {o \in [1..Cardinality(S) -> S] : Range(o) = S}

-----------------------------------------------------------------------------
(* Schema source: getCUESchema, getCommonCUESchema.                        *)

\* cache keys of the common schemas (validation.go, getCommonCUESchema)
KeyBase == -1
KeyMetadata == -2
KeyMapping == -3
KeyOther == -1000

commonSchemas == <<"base.cue", "metadata.cue", "mapping.cue">>

CommonKey(schemaName) ==
    IF schemaName = "base.cue" THEN KeyBase
    ELSE IF schemaName = "metadata.cue" THEN KeyMetadata
    ELSE IF schemaName = "mapping.cue" THEN KeyMapping
    ELSE KeyOther

Layers == 1..3          \* layers with a store handler and a cache
SchemaLayers == 1..4    \* layers validate_gemara_yaml accepts

SchemaKeys == {KeyBase, KeyMetadata, KeyMapping} \cup SchemaLayers

\* texts the remote source may serve: two revisions of a good schema, a text
\* load.Instances rejects ("broken") and one BuildInstance rejects ("conflict")
SchemaTexts == {"v1", "v2", "broken", "conflict"}

\* how one remote request ends: http.Get error, status != 200, io.ReadAll error
NetFailures == {"transport", "status", "read"}

\* the network during one call: a request for a key in net.fail fails with
\* net.kind, every other request is answered with the upstream text
NetOK == [fail |-> {}, kind |-> "ok"]

\* one HTTP GET of the schema behind a cache key
HttpGet(key, net) ==
    IF key \in net.fail THEN [ok |-> FALSE, kind |-> net.kind, body |-> ""]
    ELSE [ok |-> TRUE, kind |-> "ok", body |-> upstream[key]]

\* Shared body of getCUESchema and getCommonCUESchema on cache `cache`:
\* the text or the error, the cache afterwards, and the remote requests made.
LookupOrFetch(cache, key, net) ==
    IF Has(cache, key)
    THEN [ok |-> TRUE, text |-> cache[key], cache |-> cache, requests |-> <<>>]
    ELSE LET resp == HttpGet(key, net) IN
         IF resp.ok
         THEN [ok |-> TRUE, text |-> resp.body,
               cache |-> Put(cache, key, resp.body),
               requests |-> << [key |-> key, ok |-> TRUE] >>]
         ELSE [ok |-> FALSE, text |-> "",
               cache |-> cache,
               requests |-> << [key |-> key, ok |-> FALSE] >>]

\* mutant: the layer schema is requested on every call and cached again
getCUESchema_Refetch(cache, layer, net) ==
    LookupOrFetch([k \in (DOMAIN cache) \ {layer} |-> cache[k]], layer, net)

getCUESchema(cache, layer, net) == LookupOrFetch(cache, layer, net)

\* mutant: a failed request leaves an empty text in the cache
getCommonCUESchema_CacheFailure(cache, schemaName, net) ==
    LET got == LookupOrFetch(cache, CommonKey(schemaName), net)
    IN  IF got.ok THEN got
        ELSE [got EXCEPT !.cache = Put(cache, CommonKey(schemaName), "")]

getCommonCUESchema(cache, schemaName, net) ==
    LookupOrFetch(cache, CommonKey(schemaName), net)

-----------------------------------------------------------------------------
(* Documents.  A YAML text is modelled by what the handlers and the        *)
(* validator read of it: whether it is well-formed, its layout (fmt: the   *)
(* text as the author wrote it, or the layout the YAML encoder emits), its *)
(* metadata.id and metadata.title, and the references of its body.         *)

MissingField == "<missing>"     \* the field is absent from the document
WrongType == "<number>"         \* the field holds a value of the wrong type

\* the typed document a YAML text decodes to (layer1.GuidanceDocument,
\* layer2.Catalog, layer3.PolicyDocument): the decoder keeps the fields of the
\* layer's struct, an absent string is the zero value "", the layout is lost
Decode(layer, yaml) ==
    [id |-> yaml.id,
     title |-> IF yaml.title = MissingField THEN "" ELSE yaml.title,
     families |-> IF layer = 2 THEN yaml.families ELSE <<>>,
     guidanceRefs |-> IF layer = 3 THEN yaml.guidanceRefs ELSE <<>>,
     controlRefs |-> IF layer = 3 THEN yaml.controlRefs ELSE <<>>]

\* whether the decoder accepts the text (LoadFile, yaml.Unmarshal)
Decodable(yaml) == yaml.wellFormed /\ yaml.title # WrongType

\* the YAML text the encoder emits for a typed document
Encode(doc) ==
    [wellFormed |-> TRUE, fmt |-> "canon", id |-> doc.id, title |-> doc.title,
     families |-> doc.families, guidanceRefs |-> doc.guidanceRefs,
     controlRefs |-> doc.controlRefs]

-----------------------------------------------------------------------------
(* Validator: PerformCUEValidation.                                        *)

\* failures of the temporary directory and its files during one call
FsFailures == {"mktemp", "writeSchema", "writeLayer", "writeData"}

EnvOK == [net |-> NetOK, fs |-> "ok", io |-> "ok"]

Invalid(error, errors, cache, requests, stages) ==
    [Valid |-> FALSE, Error |-> error, Errors |-> errors,
     cache |-> cache, requests |-> requests, stages |-> stages, texts |-> <<>>]

\* the loop over commonSchemas from index i: fetch and write each in turn
RECURSIVE DownloadCommon(_, _, _, _, _, _)
DownloadCommon(cache, i, env, requests, texts, stages) ==
    IF i > Len(commonSchemas)
    THEN [ok |-> TRUE, Error |-> "", cache |-> cache, requests |-> requests,
          texts |-> texts, stages |-> stages]
    ELSE LET got == getCommonCUESchema(cache, commonSchemas[i], env.net)
             reqs == requests \o got.requests
             stgs == Append(stages, commonSchemas[i])
         IN  IF ~got.ok
             THEN [ok |-> FALSE, Error |-> "Failed to load common schema",
                   cache |-> got.cache, requests |-> reqs, texts |-> texts,
                   stages |-> stgs]
             ELSE IF env.fs = "writeSchema"
             THEN [ok |-> FALSE, Error |-> "Failed to write schema file",
                   cache |-> got.cache, requests |-> reqs, texts |-> texts,
                   stages |-> stgs]
             ELSE DownloadCommon(got.cache, i + 1, env, reqs,
                                 Append(texts, got.text), stgs)

\* load.Instances over the schema files, then ctx.BuildInstance
SchemaLoads(texts) == \A i \in 1..Len(texts) : texts[i] # "broken"
SchemaBuilds(texts) == \A i \in 1..Len(texts) : texts[i] # "conflict"

\* schemaValue.Unify(dataValue).Err(): a field of the wrong type conflicts
Unifies(yaml) == yaml.title # WrongType
\* unified.Validate(cue.Concrete(true)): a required field is left open
Concrete(yaml) == yaml.title # MissingField

PerformCUEValidationTail(yaml, layer, env, dl, got) ==
    LET reqs == dl.requests \o got.requests
        texts == Append(dl.texts, got.text)
        s1 == Append(dl.stages, "layer")
        s2 == Append(s1, "build")
        s3 == Append(s2, "parse")
        s4 == Append(s3, "unify")
        s5 == Append(s4, "concrete")
    IN  IF ~got.ok
        THEN Invalid("Failed to load CUE schema for layer", <<>>, got.cache, reqs, s1)
        ELSE IF env.fs = "writeLayer"
        THEN Invalid("Failed to write layer schema file", <<>>, got.cache, reqs, s1)
        ELSE IF env.fs = "writeData"
        THEN Invalid("Failed to write data file", <<>>, got.cache, reqs, s1)
        ELSE IF ~SchemaLoads(texts)
        THEN Invalid("Failed to load schema", <<>>, got.cache, reqs, s2)
        ELSE IF ~SchemaBuilds(texts)
        THEN Invalid("Failed to build schema", <<>>, got.cache, reqs, s2)
        ELSE IF ~yaml.wellFormed
        THEN Invalid("Failed to load data", <<>>, got.cache, reqs, s3)
        ELSE IF ~Unifies(yaml)
        THEN Invalid("Schema unification failed", <<>>, got.cache, reqs, s4)
        ELSE IF ~Concrete(yaml)
        THEN Invalid("Validation failed", <<"incomplete value">>, got.cache, reqs, s5)
        ELSE [Valid |-> TRUE, Error |-> "", Errors |-> <<>>,
              cache |-> got.cache, requests |-> reqs, stages |-> s5,
              texts |-> texts]

\* mutant: a document with an open required field is reported valid
PerformCUEValidation_NoConcrete(cache, yaml, layer, env) ==
    IF env.fs = "mktemp"
    THEN Invalid("Failed to create temporary directory", <<>>, cache, <<>>, <<>>)
    ELSE LET dl == DownloadCommon(cache, 1, env, <<>>, <<>>, <<>>)
             res == PerformCUEValidationTail(yaml, layer, env, dl,
                                             getCUESchema(dl.cache, layer, env.net))
         IN  IF ~dl.ok
             THEN Invalid(dl.Error, <<>>, dl.cache, dl.requests, dl.stages)
             ELSE IF res.Error = "Validation failed"
             THEN [res EXCEPT !.Valid = TRUE, !.Error = "", !.Errors = <<>>]
             ELSE res

\* PerformCUEValidation on schema cache `cache`: the ValidationResult, with
\* the cache afterwards, the remote requests made and the stages entered
PerformCUEValidation(cache, yaml, layer, env) ==
    IF env.fs = "mktemp"
    THEN Invalid("Failed to create temporary directory", <<>>, cache, <<>>, <<>>)
    ELSE LET dl == DownloadCommon(cache, 1, env, <<>>, <<>>, <<>>) IN
         IF ~dl.ok
         THEN Invalid(dl.Error, <<>>, dl.cache, dl.requests, dl.stages)
         ELSE PerformCUEValidationTail(yaml, layer, env, dl,
                                       getCUESchema(dl.cache, layer, env.net))

-----------------------------------------------------------------------------
(* ArtifactStorage, from the contract of the artifact store: a layer-      *)
(* partitioned store of document text with an index id -> title.  Each     *)
(* operator takes the store (files, index) and `io`, the outcome of the    *)
(* underlying IO of the call, and yields the result and the store after.   *)

NoStoreChange(fs, ix, err) ==
    [ok |-> FALSE, err |-> err, id |-> "", files |-> fs, index |-> ix]

\* List(layer): the index entries of the layer
List(ix, layer) == {[ID |-> id, Layer |-> layer, Title |-> ix[layer][id]] :
                        id \in DOMAIN ix[layer]}

\* Retrieve(layer, id): load the persisted text and parse it into the typed
\* document of the layer
Retrieve(fs, ix, layer, id, io) ==
    IF io # "ok" THEN [ok |-> FALSE, err |-> "io"]
    ELSE IF ~Has(ix[layer], id) \/ ~Has(fs[layer], id)
    THEN [ok |-> FALSE, err |-> "not found"]
    ELSE IF ~Decodable(fs[layer][id]) THEN [ok |-> FALSE, err |-> "parse"]
    ELSE [ok |-> TRUE, err |-> "", doc |-> Decode(layer, fs[layer][id])]

\* Add(layer, id, artifact): serialize the typed document, write it, upsert
\* the index entry
Add(fs, ix, layer, id, artifact, io) ==
    IF io # "ok" THEN NoStoreChange(fs, ix, "io")
    ELSE [ok |-> TRUE, err |-> "", id |-> id,
          files |-> [fs EXCEPT ![layer] = Put(@, id, Encode(artifact))],
          index |-> [ix EXCEPT ![layer] = Put(@, id, artifact.title)]]

\* StoreRawYAML(layer, content): take metadata.id from the text without
\* parsing it into the typed document, persist the text as it is, upsert the
\* index entry; fails if metadata.id is absent
StoreRawYAML(fs, ix, layer, content, io) ==
    IF ~content.wellFormed \/ content.id = "" THEN NoStoreChange(fs, ix, "no id")
    ELSE IF io # "ok" THEN NoStoreChange(fs, ix, "io")
    ELSE [ok |-> TRUE, err |-> "", id |-> content.id,
          files |-> [fs EXCEPT ![layer] = Put(@, content.id, content)],
          index |-> [ix EXCEPT ![layer] =
                        Put(@, content.id,
                            IF content.title = MissingField THEN ""
                            ELSE content.title)]]

-----------------------------------------------------------------------------
(* History bookkeeping shared by the handlers.                             *)


StoreOps == {"store_layer1_yaml", "store_layer2_yaml", "store_layer3_yaml"}

\* the operation just completed: its name, layer, id, argument (the content
\* submitted, for a write), the environment it ran in, whether it returned a
\* success result, and its output; for a successful store_layerN_yaml that
\* directly follows another successful one, `after` is the layer and id the
\* earlier one stored
Outcome(op, layer, id, arg, env, ok, out) ==
    [op |-> op, layer |-> layer, id |-> id, arg |-> arg, env |-> env,
     ok |-> ok, out |-> out,
     after |-> IF ok /\ op \in StoreOps /\ last.ok /\ last.op \in StoreOps
               THEN <<last.layer, last.id>> ELSE <<>>]

\* a handler that ran from its first line to its return in one step
Done(op, layer, id, arg, env, ok, out) ==
    /\ last' = Outcome(op, layer, id, arg, env, ok, out)
    /\ UNCHANGED inflight

Successes(requests, k) ==
    Cardinality({i \in 1..Len(requests) : requests[i].key = k /\ requests[i].ok})

\* one more successful Add / StoreRawYAML of id in layer
NoteStored(layer, id) ==
    stored' = Put(stored, <<layer, id>>,
                  IF Has(stored, <<layer, id>>)
                  THEN Min(MaxStored, stored[<<layer, id>>] + 1) ELSE 1)

NoteFetches(requests) ==
    fetched' = [k \in SchemaKeys |->
                    Min(MaxFetched, fetched[k] + Successes(requests, k))]

\* the text of an empty yaml_content / a file that does not exist
NoContent ==
    [wellFormed |-> FALSE, fmt |-> "none", id |-> "", title |-> MissingField,
     families |-> <<>>, guidanceRefs |-> <<>>, controlRefs |-> <<>>]

-----------------------------------------------------------------------------
(* store_layerN_yaml: handleStoreLayer1YAML, handleStoreLayer2YAML,        *)
(* handleStoreLayer3YAML.                                                  *)

\* the three handlers share one body, differing in the layer number
StoreLayerYAML(op, layer, yamlContent, env) ==
    IF yamlContent = NoContent
    THEN /\ Done(op, layer, "", yamlContent, env, FALSE,
                 [msg |-> "yaml_content is required", valid |-> FALSE,
                  requests |-> <<>>])
         /\ UNCHANGED <<storage, storeVars, cacheVars, schemaCache, upstream,
                        fetched, stored>>
    ELSE
    LET validationResult == PerformCUEValidation(schemaCache, yamlContent, layer, env)
        artifactID == yamlContent.id
        res == StoreRawYAML(files, index, layer, yamlContent, env.io)
        Out(msg) == [msg |-> msg, valid |-> validationResult.Valid,
                     requests |-> validationResult.requests]
    IN  /\ schemaCache' = validationResult.cache
        /\ NoteFetches(validationResult.requests)
        /\ UNCHANGED <<storage, cacheVars, upstream>>
        /\ IF ~validationResult.Valid
           THEN /\ Done(op, layer, artifactID, yamlContent, env, FALSE,
                        Out("CUE validation failed"))
                /\ UNCHANGED <<storeVars, stored>>
           ELSE IF ~yamlContent.wellFormed
           THEN /\ Done(op, layer, artifactID, yamlContent, env, FALSE,
                        Out("Failed to parse YAML to extract metadata"))
                /\ UNCHANGED <<storeVars, stored>>
           ELSE IF artifactID = ""
           THEN /\ Done(op, layer, artifactID, yamlContent, env, FALSE,
                        Out("YAML content must include metadata.id"))
                /\ UNCHANGED <<storeVars, stored>>
           ELSE IF ~storage
           THEN /\ Done(op, layer, artifactID, yamlContent, env, FALSE,
                        Out("Storage not available"))
                /\ UNCHANGED <<storeVars, stored>>
           ELSE IF ~res.ok
           THEN /\ Done(op, layer, artifactID, yamlContent, env, FALSE,
                        Out("Failed to store YAML"))
                /\ UNCHANGED <<storeVars, stored>>
           ELSE /\ files' = res.files
                /\ index' = res.index
                /\ NoteStored(layer, res.id)
                /\ Done(op, layer, res.id, yamlContent, env, TRUE,
                        Out("Successfully stored and validated"))

\* mutant: an id already in the index is reported stored but left as it is
handleStoreLayer1YAML_KeepFirst(yamlContent, env) ==
    IF storage /\ Has(index[1], yamlContent.id)
    THEN /\ Done("store_layer1_yaml", 1, yamlContent.id, yamlContent, env, TRUE,
                 [msg |-> "Successfully stored and validated", valid |-> TRUE,
                  requests |-> <<>>])
         /\ UNCHANGED <<storage, storeVars, cacheVars, schemaCache, upstream,
                        fetched, stored>>
    ELSE StoreLayerYAML("store_layer1_yaml", 1, yamlContent, env)

\* mutant: a successful store drops the cached entry of the id
handleStoreLayer1YAML_Invalidate(yamlContent, env) ==
    LET validationResult == PerformCUEValidation(schemaCache, yamlContent, 1, env)
        res == StoreRawYAML(files, index, 1, yamlContent, env.io)
    IN  IF yamlContent # NoContent /\ validationResult.Valid /\ storage /\ res.ok
           /\ Has(layer1Guidance, yamlContent.id)
        THEN /\ schemaCache' = validationResult.cache
             /\ NoteFetches(validationResult.requests)
             /\ UNCHANGED <<storage, layer2Catalogs, layer3Policies, upstream>>
             /\ layer1Guidance' =
                   [x \in (DOMAIN layer1Guidance) \ {yamlContent.id} |->
                       layer1Guidance[x]]
             /\ files' = res.files
             /\ index' = res.index
             /\ NoteStored(1, res.id)
             /\ Done("store_layer1_yaml", 1, res.id, yamlContent, env, TRUE,
                     [msg |-> "Successfully stored and validated",
                      valid |-> TRUE, requests |-> validationResult.requests])
        ELSE StoreLayerYAML("store_layer1_yaml", 1, yamlContent, env)

handleStoreLayer1YAML(yamlContent, env) ==
    StoreLayerYAML("store_layer1_yaml", 1, yamlContent, env)

\* mutant: the catalog is stored whatever the validator says
handleStoreLayer2YAML_NoGate(yamlContent, env) ==
    LET validationResult == PerformCUEValidation(schemaCache, yamlContent, 2, env)
        res == StoreRawYAML(files, index, 2, yamlContent, env.io)
    IN  IF validationResult.Valid \/ ~storage \/ ~res.ok
        THEN StoreLayerYAML("store_layer2_yaml", 2, yamlContent, env)
        ELSE /\ schemaCache' = validationResult.cache
             /\ NoteFetches(validationResult.requests)
             /\ UNCHANGED <<storage, cacheVars, upstream>>
             /\ files' = res.files
             /\ index' = res.index
             /\ NoteStored(2, res.id)
             /\ Done("store_layer2_yaml", 2, res.id, yamlContent, env, TRUE,
                     [msg |-> "Successfully stored and validated",
                      valid |-> validationResult.Valid,
                      requests |-> validationResult.requests])

\* mutant: a catalog is refused while a guidance document it maps is not in
\* the store
handleStoreLayer2YAML_RefCheck(yamlContent, env) ==
    IF \E i \in 1..Len(yamlContent.families) :
          \E j \in 1..Len(yamlContent.families[i].controls) :
             \E k \in 1..Len(yamlContent.families[i].controls[j].mappings) :
                ~Has(index[1], yamlContent.families[i].controls[j].mappings[k])
    THEN /\ Done("store_layer2_yaml", 2, yamlContent.id, yamlContent, env, FALSE,
                 [msg |-> "unresolved reference", valid |-> TRUE,
                  requests |-> <<>>])
         /\ UNCHANGED <<storage, storeVars, cacheVars, schemaCache, upstream,
                        fetched, stored>>
    ELSE StoreLayerYAML("store_layer2_yaml", 2, yamlContent, env)

handleStoreLayer2YAML(yamlContent, env) ==
    StoreLayerYAML("store_layer2_yaml", 2, yamlContent, env)

\* mutant: a policy that fails validation takes the entry of its id out of
\* the index
handleStoreLayer3YAML_DropOnError(yamlContent, env) ==
    LET validationResult == PerformCUEValidation(schemaCache, yamlContent, 3, env)
    IN  IF yamlContent # NoContent /\ ~validationResult.Valid
           /\ Has(index[3], yamlContent.id)
        THEN /\ schemaCache' = validationResult.cache
             /\ NoteFetches(validationResult.requests)
             /\ UNCHANGED <<storage, cacheVars, upstream, files, stored>>
             /\ index' = [index EXCEPT ![3] =
                             [x \in (DOMAIN @) \ {yamlContent.id} |-> @[x]]]
             /\ Done("store_layer3_yaml", 3, yamlContent.id, yamlContent, env,
                     FALSE, [msg |-> "CUE validation failed", valid |-> FALSE,
                             requests |-> validationResult.requests])
        ELSE StoreLayerYAML("store_layer3_yaml", 3, yamlContent, env)

handleStoreLayer3YAML(yamlContent, env) ==
    StoreLayerYAML("store_layer3_yaml", 3, yamlContent, env)

-----------------------------------------------------------------------------
(* load_layerN_from_file.                                                  *)

\* handleLoadLayer1FromFile: decode the file, put the document in the cache,
\* and Add it to the store when there is one (an Add error is only logged)
handleLoadLayer1FromFile(file, env) ==
    LET guidance == Decode(1, file)
        res == Add(files, index, 1, guidance.id, guidance, env.io)
    IN  /\ UNCHANGED <<storage, layer2Catalogs, layer3Policies, schemaCache,
                       upstream, fetched>>
        /\ IF ~Decodable(file)
           THEN /\ Done("load_layer1_from_file", 1, "", file, env, FALSE,
                        "Failed to load Layer 1 Guidance from file")
                /\ UNCHANGED <<storeVars, layer1Guidance, stored>>
           ELSE IF guidance.id = ""
           THEN /\ Done("load_layer1_from_file", 1, "", file, env, FALSE,
                        "Loaded guidance document missing metadata.id")
                /\ UNCHANGED <<storeVars, layer1Guidance, stored>>
           ELSE /\ layer1Guidance' = Put(layer1Guidance, guidance.id, guidance)
                /\ IF storage /\ res.ok
                   THEN /\ files' = res.files
                        /\ index' = res.index
                        /\ NoteStored(1, guidance.id)
                   ELSE UNCHANGED <<storeVars, stored>>
                /\ Done("load_layer1_from_file", 1, guidance.id, file, env, TRUE,
                        "Successfully loaded Layer 1 Guidance")

\* handleLoadLayer2FromFile: decode the file and put the catalog in the cache
handleLoadLayer2FromFile(file) ==
    LET catalog == Decode(2, file)
    IN  /\ UNCHANGED <<storage, storeVars, layer1Guidance, layer3Policies,
                       schemaCache, upstream, fetched, stored>>
        /\ IF ~Decodable(file)
           THEN /\ Done("load_layer2_from_file", 2, "", file, EnvOK, FALSE,
                        "Failed to load Layer 2 Catalog from file")
                /\ UNCHANGED layer2Catalogs
           ELSE IF catalog.id = ""
           THEN /\ Done("load_layer2_from_file", 2, "", file, EnvOK, FALSE,
                        "Loaded catalog missing metadata.id")
                /\ UNCHANGED layer2Catalogs
           ELSE /\ layer2Catalogs' = Put(layer2Catalogs, catalog.id, catalog)
                /\ Done("load_layer2_from_file", 2, catalog.id, file, EnvOK, TRUE,
                        "Successfully loaded Layer 2 Control Catalog")

\* mutant: the three caches are one map, keyed by the id alone
handleLoadLayer3FromFile_Shared(file) ==
    LET policy == Decode(3, file)
    IN  /\ UNCHANGED <<storage, storeVars, layer2Catalogs, schemaCache, upstream,
                       fetched, stored>>
        /\ IF ~Decodable(file) \/ policy.id = ""
           THEN /\ Done("load_layer3_from_file", 3, "", file, EnvOK, FALSE,
                        "Failed to load Layer 3 Policy from file")
                /\ UNCHANGED <<layer1Guidance, layer3Policies>>
           ELSE /\ layer3Policies' = Put(layer3Policies, policy.id, policy)
                /\ layer1Guidance' = Put(layer1Guidance, policy.id, policy)
                /\ Done("load_layer3_from_file", 3, policy.id, file, EnvOK, TRUE,
                        "Successfully loaded Layer 3 Policy")

\* handleLoadLayer3FromFile: decode the file and put the policy in the cache
handleLoadLayer3FromFile(file) ==
    LET policy == Decode(3, file)
    IN  /\ UNCHANGED <<storage, storeVars, layer1Guidance, layer2Catalogs,
                       schemaCache, upstream, fetched, stored>>
        /\ IF ~Decodable(file)
           THEN /\ Done("load_layer3_from_file", 3, "", file, EnvOK, FALSE,
                        "Failed to load Layer 3 Policy from file")
                /\ UNCHANGED layer3Policies
           ELSE IF policy.id = ""
           THEN /\ Done("load_layer3_from_file", 3, "", file, EnvOK, FALSE,
                        "Loaded policy document missing metadata.id")
                /\ UNCHANGED layer3Policies
           ELSE /\ layer3Policies' = Put(layer3Policies, policy.id, policy)
                /\ Done("load_layer3_from_file", 3, policy.id, file, EnvOK, TRUE,
                        "Successfully loaded Layer 3 Policy")

-----------------------------------------------------------------------------
(* Layer-1 read handlers.                                                  *)

\* mutant: a miss is reported not found without asking the store
handleGetLayer1Guidance_NoStore(guidanceID, env) ==
    /\ UNCHANGED <<storage, storeVars, cacheVars, schemaCache, upstream,
                   fetched, stored>>
    /\ IF guidanceID # "" /\ Has(layer1Guidance, guidanceID)
       THEN Done("get_layer1_guidance", 1, guidanceID, "cache", env, TRUE,
                 layer1Guidance[guidanceID])
       ELSE Done("get_layer1_guidance", 1, guidanceID, "", env, FALSE, "not found")

\* mutant: a document retrieved from the store is returned but not cached
handleGetLayer1Guidance_NoFill(guidanceID, env) ==
    LET retrieved == Retrieve(files, index, 1, guidanceID, env.io)
    IN  /\ UNCHANGED <<storage, storeVars, cacheVars, schemaCache, upstream,
                       fetched, stored>>
        /\ IF guidanceID = ""
           THEN Done("get_layer1_guidance", 1, guidanceID, "", env, FALSE,
                     "guidance_id is required")
           ELSE IF Has(layer1Guidance, guidanceID)
           THEN Done("get_layer1_guidance", 1, guidanceID, "cache", env, TRUE,
                     layer1Guidance[guidanceID])
           ELSE IF storage /\ retrieved.ok
           THEN Done("get_layer1_guidance", 1, guidanceID, "store", env, TRUE,
                     retrieved.doc)
           ELSE Done("get_layer1_guidance", 1, guidanceID, "", env, FALSE,
                     "not found")

\* handleGetLayer1Guidance: the cached document, else the one retrieved from
\* the store, which is then put in the cache
handleGetLayer1Guidance(guidanceID, env) ==
    LET retrieved == Retrieve(files, index, 1, guidanceID, env.io)
    IN  /\ UNCHANGED <<storage, storeVars, layer2Catalogs, layer3Policies,
                       schemaCache, upstream, fetched, stored>>
        /\ IF guidanceID = ""
           THEN /\ Done("get_layer1_guidance", 1, guidanceID, "", env, FALSE,
                        "guidance_id is required")
                /\ UNCHANGED layer1Guidance
           ELSE IF Has(layer1Guidance, guidanceID)
           THEN /\ Done("get_layer1_guidance", 1, guidanceID, "cache", env, TRUE,
                        layer1Guidance[guidanceID])
                /\ UNCHANGED layer1Guidance
           ELSE IF storage /\ retrieved.ok
           THEN /\ layer1Guidance' = Put(layer1Guidance, guidanceID, retrieved.doc)
                /\ Done("get_layer1_guidance", 1, guidanceID, "store", env, TRUE,
                        retrieved.doc)
           ELSE /\ Done("get_layer1_guidance", 1, guidanceID, "", env, FALSE,
                        "not found")
                /\ UNCHANGED layer1Guidance

\* mutant: the entries are always taken from the cache
Layer1Entries_CacheOnly ==
    {[ID |-> id, Layer |-> 1, Title |-> layer1Guidance[id].title] :
        id \in DOMAIN layer1Guidance}

\* the entries handleListLayer1Guidance and handleSearchLayer1Guidance walk:
\* the store's list, or the cache when there is no store
Layer1Entries ==
    IF storage THEN List(index, 1)
    ELSE {[ID |-> id, Layer |-> 1, Title |-> layer1Guidance[id].title] :
              id \in DOMAIN layer1Guidance}

\* mutant: every entry the store can deliver is put in the cache again
FillFromEntries_Refresh(entries, io) ==
    LET fill == {e.ID : e \in {x \in entries :
                     /\ storage
                     /\ Retrieve(files, index, 1, x.ID, io).ok}}
    IN  [id \in (DOMAIN layer1Guidance) \cup fill |->
            IF id \in fill THEN Retrieve(files, index, 1, id, io).doc
            ELSE layer1Guidance[id]]

\* the cache after the loop over the entries: an entry that is not cached is
\* retrieved from the store and, if that succeeds, put in the cache
FillFromEntries(entries, io) ==
    LET fill == {e.ID : e \in {x \in entries :
                     /\ ~Has(layer1Guidance, x.ID)
                     /\ storage
                     /\ Retrieve(files, index, 1, x.ID, io).ok}}
    IN  [id \in (DOMAIN layer1Guidance) \cup fill |->
            IF Has(layer1Guidance, id) THEN layer1Guidance[id]
            ELSE Retrieve(files, index, 1, id, io).doc]

\* handleListLayer1Guidance: one line per entry, with the details of the
\* document when it can be had from the cache or the store
handleListLayer1Guidance(env) ==
    LET entries == Layer1Entries
        cache == FillFromEntries(entries, env.io)
    IN  /\ UNCHANGED <<storage, storeVars, layer2Catalogs, layer3Policies,
                       schemaCache, upstream, fetched, stored>>
        /\ layer1Guidance' = cache
        /\ Done("list_layer1_guidance", 1, "", "", env, TRUE,
                {[ID |-> e.ID, Title |-> e.Title] : e \in entries})

\* strings.ToLower on the titles and search terms in use
ToLower(s) ==
    IF s = "T" THEN "t" ELSE IF s = "T1" THEN "t1" ELSE IF s = "T2" THEN "t2"
    ELSE IF s = "G" THEN "g" ELSE s

\* the substrings of the lower-case titles in use
Substrings(s) ==
    IF s = "t1" THEN {"", "t", "1", "t1"}
    ELSE IF s = "t2" THEN {"", "t", "2", "t2"}
    ELSE {"", s}

\* strings.Contains(strings.ToLower(title), searchLower)
TitleMatch(title, searchTerm) == ToLower(searchTerm) \in Substrings(ToLower(title))

\* mutant: the term is matched against the title of the entry, and an entry
\* is returned whether or not its document can be had
handleSearchLayer1Guidance_ByEntry(searchTerm, env) ==
    LET entries == Layer1Entries
        cache == FillFromEntries(entries, env.io)
    IN  /\ UNCHANGED <<storage, storeVars, layer2Catalogs, layer3Policies,
                       schemaCache, upstream, fetched, stored>>
        /\ IF searchTerm = ""
           THEN /\ Done("search_layer1_guidance", 1, "", searchTerm, env, FALSE,
                        "search_term is required")
                /\ UNCHANGED layer1Guidance
           ELSE /\ layer1Guidance' = cache
                /\ Done("search_layer1_guidance", 1, "", searchTerm, env, TRUE,
                        {[ID |-> e.ID, Title |-> e.Title] :
                            e \in {x \in entries : TitleMatch(x.Title, searchTerm)}})

\* mutant: the entries searched are those of the store's index, store or not
handleSearchLayer1Guidance_Index(searchTerm, env) ==
    LET entries == List(index, 1)
        cache == FillFromEntries(entries, env.io)
        matches == {cache[e.ID] : e \in {x \in entries :
                        /\ Has(cache, x.ID)
                        /\ TitleMatch(cache[x.ID].title, searchTerm)}}
    IN  /\ UNCHANGED <<storage, storeVars, layer2Catalogs, layer3Policies,
                       schemaCache, upstream, fetched, stored>>
        /\ IF searchTerm = ""
           THEN /\ Done("search_layer1_guidance", 1, "", searchTerm, env, FALSE,
                        "search_term is required")
                /\ UNCHANGED layer1Guidance
           ELSE /\ layer1Guidance' = cache
                /\ Done("search_layer1_guidance", 1, "", searchTerm, env, TRUE,
                        {[ID |-> d.id, Title |-> d.title] : d \in matches})

\* handleSearchLayer1Guidance: walk the entries as the list handler does,
\* filling the cache, skip an entry without a document, and return the
\* documents whose title contains the term (of the fields searched, title,
\* description and author, the documents of the model have the title)
handleSearchLayer1Guidance(searchTerm, env) ==
    LET entries == Layer1Entries
        cache == FillFromEntries(entries, env.io)
        matches == {cache[e.ID] : e \in {x \in entries :
                        /\ Has(cache, x.ID)
                        /\ TitleMatch(cache[x.ID].title, searchTerm)}}
    IN  /\ UNCHANGED <<storage, storeVars, layer2Catalogs, layer3Policies,
                       schemaCache, upstream, fetched, stored>>
        /\ IF searchTerm = ""
           THEN /\ Done("search_layer1_guidance", 1, "", searchTerm, env, FALSE,
                        "search_term is required")
                /\ UNCHANGED layer1Guidance
           ELSE /\ layer1Guidance' = cache
                /\ Done("search_layer1_guidance", 1, "", searchTerm, env, TRUE,
                        {[ID |-> d.id, Title |-> d.title] : d \in matches})

-----------------------------------------------------------------------------
(* Relationship resolver: handleGetArtifactRelationships.                  *)
(* A range loop over a Go map visits the keys in an order the runtime      *)
(* picks; `order` is the order of the catalog ids, `porder` of the policy  *)
(* ids, during one call.                                                   *)

\* the controls of a catalog, family by family
ControlsOf(catalog) ==
    Concat([i \in 1..Len(catalog.families) |-> catalog.families[i].controls])

\* the loop catalogs x families x controls, as <<catalog id, control>> pairs
AllControls(order) ==
    Concat([i \in 1..Len(order) |->
              [j \in 1..Len(ControlsOf(layer2Catalogs[order[i]])) |->
                  [catalog |-> order[i],
                   control |-> ControlsOf(layer2Catalogs[order[i]])[j]]]])

\* one line of References / ReferencedBy: "<catalog>:<id> (Layer n)", or
\* "<id> (Layer n - NOT FOUND)" when found is FALSE
Edge(catalog, id, layer, found) ==
    [catalog |-> catalog, id |-> id, layer |-> layer, found |-> found]

controlReferencesLayer1(control, guidanceID) ==
    \E i \in 1..Len(control.mappings) : control.mappings[i] = guidanceID

policyReferencesControl(policy, catalogID, controlID) ==
    \E i \in 1..Len(policy.controlRefs) : policy.controlRefs[i] = controlID

NotFound == [ok |-> FALSE, Title |-> "", References |-> <<>>, ReferencedBy |-> <<>>]

\* mutant: only the first control family of each catalog is searched
buildLayer1Relationships_FirstFamily(guidanceID, order) ==
    IF ~Has(layer1Guidance, guidanceID) THEN NotFound
    ELSE LET firsts ==
                 Concat([i \in 1..Len(order) |->
                    IF layer2Catalogs[order[i]].families = <<>> THEN <<>>
                    ELSE [j \in 1..Len(layer2Catalogs[order[i]].families[1].controls) |->
                            [catalog |-> order[i],
                             control |-> layer2Catalogs[order[i]].families[1].controls[j]]]])
             hits == SelectSeq(firsts,
                        LAMBDA e : controlReferencesLayer1(e.control, guidanceID))
         IN  [ok |-> TRUE,
              Title |-> layer1Guidance[guidanceID].title,
              ReferencedBy |-> [i \in 1..Len(hits) |->
                                  Edge(hits[i].catalog, hits[i].control.id, 2, TRUE)],
              References |-> <<>>]

buildLayer1Relationships(guidanceID, order) ==
    IF ~Has(layer1Guidance, guidanceID) THEN NotFound
    ELSE LET hits == SelectSeq(AllControls(order),
                        LAMBDA e : controlReferencesLayer1(e.control, guidanceID))
         IN  [ok |-> TRUE,
              Title |-> layer1Guidance[guidanceID].title,
              ReferencedBy |-> [i \in 1..Len(hits) |->
                                  Edge(hits[i].catalog, hits[i].control.id, 2, TRUE)],
              References |-> <<>>]

\* mutant: an id named by several entries yields one line
Layer1Edges_Dedup(refs) ==
    LET firsts == SelectSeq([i \in 1..Len(refs) |-> i],
                            LAMBDA i : /\ refs[i] # ""
                                       /\ \A j \in 1..(i - 1) : refs[j] # refs[i])
    IN  [k \in 1..Len(firsts) |->
            Edge("", refs[firsts[k]], 1, Has(layer1Guidance, refs[firsts[k]]))]

\* the reference lines of a list of ids resolved against the guidance cache;
\* an empty id yields no line
RECURSIVE Layer1Edges(_)
Layer1Edges(refs) ==
    IF refs = <<>> THEN <<>>
    ELSE (IF Head(refs) = "" THEN <<>>
          ELSE << Edge("", Head(refs), 1, Has(layer1Guidance, Head(refs))) >>)
         \o Layer1Edges(Tail(refs))

\* mutant: the search for policies stops at the first that references the
\* control
buildLayer2Relationships_FirstPolicy(controlID, order, porder) ==
    LET hits == SelectSeq(AllControls(order), LAMBDA e : e.control.id = controlID)
    IN  IF hits = <<>> THEN NotFound
        ELSE LET pols == SelectSeq(porder, LAMBDA p :
                            policyReferencesControl(layer3Policies[p],
                                                    hits[1].catalog, controlID))
             IN  [ok |-> TRUE,
                  Title |-> hits[1].control.title,
                  References |-> Layer1Edges(hits[1].control.mappings),
                  ReferencedBy |-> IF pols = <<>> THEN <<>>
                                   ELSE << Edge("", pols[1], 3, TRUE) >>]

buildLayer2Relationships(controlID, order, porder) ==
    LET hits == SelectSeq(AllControls(order), LAMBDA e : e.control.id = controlID)
    IN  IF hits = <<>> THEN NotFound
        ELSE LET foundControl == hits[1].control
                 catalogID == hits[1].catalog
                 pols == SelectSeq(porder, LAMBDA p :
                            policyReferencesControl(layer3Policies[p], catalogID,
                                                    controlID))
             IN  [ok |-> TRUE,
                  Title |-> foundControl.title,
                  References |-> Layer1Edges(foundControl.mappings),
                  ReferencedBy |-> [i \in 1..Len(pols) |-> Edge("", pols[i], 3, TRUE)]]

\* the reference lines of a policy's control references: the first control
\* with the id, over all catalogs, or a CONTROL NOT FOUND line
RECURSIVE Layer2Edges(_, _)
Layer2Edges(refs, order) ==
    IF refs = <<>> THEN <<>>
    ELSE LET controlID == Head(refs)
             hits == SelectSeq(AllControls(order), LAMBDA e : e.control.id = controlID)
         IN  (IF controlID = "" THEN <<>>
              ELSE IF hits = <<>> THEN << Edge("", controlID, 2, FALSE) >>
              ELSE << Edge(hits[1].catalog, controlID, 2, TRUE) >>)
             \o Layer2Edges(Tail(refs), order)

\* mutant: a control reference without a target fails the resolution
buildLayer3Relationships_Strict(policyID, order) ==
    IF ~Has(layer3Policies, policyID) THEN NotFound
    ELSE IF \E i \in 1..Len(layer3Policies[policyID].controlRefs) :
               Layer2Edges(<<layer3Policies[policyID].controlRefs[i]>>, order)
                   = << Edge("", layer3Policies[policyID].controlRefs[i], 2, FALSE) >>
    THEN NotFound
    ELSE [ok |-> TRUE,
          Title |-> layer3Policies[policyID].title,
          References |-> Layer1Edges(layer3Policies[policyID].guidanceRefs)
                            \o Layer2Edges(layer3Policies[policyID].controlRefs, order),
          ReferencedBy |-> <<>>]

buildLayer3Relationships(policyID, order) ==
    IF ~Has(layer3Policies, policyID) THEN NotFound
    ELSE LET policy == layer3Policies[policyID]
         IN  [ok |-> TRUE,
              Title |-> policy.title,
              References |-> Layer1Edges(policy.guidanceRefs)
                                \o Layer2Edges(policy.controlRefs, order),
              ReferencedBy |-> <<>>]

ArtifactTypes == {"layer1", "layer2", "layer3"}

TypeLayer(artifactType) ==
    IF artifactType = "layer1" THEN 1
    ELSE IF artifactType = "layer2" THEN 2
    ELSE IF artifactType = "layer3" THEN 3 ELSE 0

\* resolve(id, layer) of the specification
Resolve(artifactID, artifactType, order, porder) ==
    IF artifactType = "layer1" THEN buildLayer1Relationships(artifactID, order)
    ELSE IF artifactType = "layer2"
    THEN buildLayer2Relationships(artifactID, order, porder)
    ELSE buildLayer3Relationships(artifactID, order)

handleGetArtifactRelationships(artifactID, artifactType, order, porder) ==
    LET relationships == Resolve(artifactID, artifactType, order, porder)
        layer == TypeLayer(artifactType)
    IN  /\ UNCHANGED <<storage, storeVars, cacheVars, schemaCache, upstream,
                       fetched, stored>>
        /\ IF artifactID = ""
           THEN Done("get_artifact_relationships", layer, artifactID, artifactType,
                     EnvOK, FALSE, "artifact_id is required")
           ELSE IF artifactType = ""
           THEN Done("get_artifact_relationships", layer, artifactID, artifactType,
                     EnvOK, FALSE, "artifact_type is required")
           ELSE IF artifactType \notin ArtifactTypes
           THEN Done("get_artifact_relationships", layer, artifactID, artifactType,
                     EnvOK, FALSE, "invalid artifact_type")
           ELSE IF ~relationships.ok
           THEN Done("get_artifact_relationships", layer, artifactID, artifactType,
                     EnvOK, FALSE, "failed to build relationships")
           ELSE Done("get_artifact_relationships", layer, artifactID, artifactType,
                     EnvOK, TRUE, relationships)

-----------------------------------------------------------------------------
(* Layer-2 read handlers: they walk g.layer2Catalogs only.                 *)

\* mutant: the filter looks at the first guideline mapping of a control only
FilteredControls_FirstMapping(layer1Ref, order) ==
    SelectSeq(AllControls(order),
              LAMBDA e : layer1Ref # "" =>
                            /\ e.control.mappings # <<>>
                            /\ e.control.mappings[1] = layer1Ref)

\* the loop that collects allControls: every control, or with a
\* layer1_reference those with a guideline mapping to it
FilteredControls(layer1Ref, order) ==
    SelectSeq(AllControls(order),
              LAMBDA e : layer1Ref # "" =>
                            \E i \in 1..Len(e.control.mappings) :
                                e.control.mappings[i] = layer1Ref)

\* handleListLayer2Controls: the controls of every cached catalog, in loop
\* order, filtered by layer1_reference when it is given (the JSON output; the
\* text output regroups the same controls by catalog)
handleListLayer2Controls(layer1Ref, order) ==
    LET allControls == FilteredControls(layer1Ref, order)
    IN  /\ UNCHANGED <<storage, storeVars, cacheVars, schemaCache, upstream,
                       fetched, stored>>
        /\ Done("list_layer2_controls", 2, "", layer1Ref, EnvOK, TRUE,
                [i \in 1..Len(allControls) |->
                    [control_id |-> allControls[i].control.id,
                     title |-> allControls[i].control.title,
                     catalog_id |-> allControls[i].catalog]])

\* handleGetLayer2Control: the first control with the id, over the cached
\* catalogs in loop order
handleGetLayer2Control(controlID, order) ==
    LET hits == SelectSeq(AllControls(order), LAMBDA e : e.control.id = controlID)
    IN  /\ UNCHANGED <<storage, storeVars, cacheVars, schemaCache, upstream,
                       fetched, stored>>
        /\ IF controlID = ""
           THEN Done("get_layer2_control", 2, controlID, "", EnvOK, FALSE,
                     "control_id is required")
           ELSE IF hits = <<>>
           THEN Done("get_layer2_control", 2, controlID, "", EnvOK, FALSE,
                     "not found")
           ELSE Done("get_layer2_control", 2, controlID, "", EnvOK, TRUE,
                     [catalog |-> hits[1].catalog, control |-> hits[1].control])

\* handleGetLayer2GuidelineMappings: the guideline mappings of the first
\* control with the id, over the cached catalogs in loop order, under its
\* title and catalog; a control that is not found, or has no mappings, is
\* answered with a text result
handleGetLayer2GuidelineMappings(controlID, order) ==
    LET hits == SelectSeq(AllControls(order), LAMBDA e : e.control.id = controlID)
    IN  /\ UNCHANGED <<storage, storeVars, cacheVars, schemaCache, upstream,
                       fetched, stored>>
        /\ IF controlID = ""
           THEN Done("get_layer2_guideline_mappings", 2, controlID, "", EnvOK, FALSE,
                     "control_id is required")
           ELSE IF hits = <<>>
           THEN Done("get_layer2_guideline_mappings", 2, controlID, "", EnvOK, TRUE,
                     "not found")
           ELSE IF hits[1].control.mappings = <<>>
           THEN Done("get_layer2_guideline_mappings", 2, controlID, "", EnvOK, TRUE,
                     [control_title |-> hits[1].control.title,
                      guideline_mappings |-> <<>>])
           ELSE Done("get_layer2_guideline_mappings", 2, controlID, "", EnvOK, TRUE,
                     [control_title |-> hits[1].control.title,
                      catalog_id |-> hits[1].catalog,
                      guideline_mappings |-> hits[1].control.mappings])

-----------------------------------------------------------------------------
(* validate_gemara_yaml: handleValidateGemaraYAML.                         *)

\* mutant: a document found valid is also kept in the guidance cache
handleValidateGemaraYAML_Keep(yamlContent, layer, env) ==
    LET validationResult == PerformCUEValidation(schemaCache, yamlContent, layer, env)
        kept == yamlContent # NoContent /\ layer \in SchemaLayers
                    /\ validationResult.Valid
    IN  /\ UNCHANGED <<storage, storeVars, layer2Catalogs, layer3Policies,
                       upstream, stored>>
        /\ layer1Guidance' = IF kept
                              THEN Put(layer1Guidance, "validated",
                                       Decode(1, yamlContent))
                              ELSE layer1Guidance
        /\ IF yamlContent = NoContent \/ layer \notin SchemaLayers
           THEN /\ Done("validate_gemara_yaml", layer, "", yamlContent, env, FALSE,
                        "rejected")
                /\ UNCHANGED <<schemaCache, fetched>>
           ELSE /\ schemaCache' = validationResult.cache
                /\ NoteFetches(validationResult.requests)
                /\ Done("validate_gemara_yaml", layer, "", yamlContent, env, TRUE,
                        [Valid |-> validationResult.Valid,
                         Error |-> validationResult.Error,
                         Errors |-> validationResult.Errors,
                         requests |-> validationResult.requests,
                         stages |-> validationResult.stages,
                         texts |-> validationResult.texts])

handleValidateGemaraYAML(yamlContent, layer, env) ==
    LET validationResult == PerformCUEValidation(schemaCache, yamlContent, layer, env)
    IN  /\ UNCHANGED <<storage, storeVars, cacheVars, upstream, stored>>
        /\ IF yamlContent = NoContent
           THEN /\ Done("validate_gemara_yaml", layer, "", yamlContent, env, FALSE,
                        "yaml_content is required")
                /\ UNCHANGED <<schemaCache, fetched>>
           ELSE IF layer < 1 \/ layer > 4
           THEN /\ Done("validate_gemara_yaml", layer, "", yamlContent, env, FALSE,
                        "layer must be between 1 and 4")
                /\ UNCHANGED <<schemaCache, fetched>>
           ELSE /\ schemaCache' = validationResult.cache
                /\ NoteFetches(validationResult.requests)
                /\ Done("validate_gemara_yaml", layer, "", yamlContent, env, TRUE,
                        [Valid |-> validationResult.Valid,
                         Error |-> validationResult.Error,
                         Errors |-> validationResult.Errors,
                         requests |-> validationResult.requests,
                         stages |-> validationResult.stages,
                         texts |-> validationResult.texts])

-----------------------------------------------------------------------------
(* Requests that run side by side.  The struct has no lock, so a request   *)
(* that blocks in http.Get (getCUESchema) or in storage.Retrieve           *)
(* (handleGetLayer1Guidance) lets another request run; a request is cut at *)
(* that call: the steps up to it, and the steps from its return on.        *)

\* the requests that can be in progress together
MaxRequests == 2
Requests == 1..MaxRequests

Remove(m, k) == [x \in (DOMAIN m) \ {k} |-> m[x]]

\* mutant: the text fetched is cached only if the layer is still missing
getCUESchemaResume_IfAbsent(cache, layer, net) ==
    LET resp == HttpGet(layer, net) IN
    IF resp.ok
    THEN [ok |-> TRUE, text |-> resp.body,
          cache |-> IF Has(cache, layer) THEN cache ELSE Put(cache, layer, resp.body),
          requests |-> << [key |-> layer, ok |-> TRUE] >>]
    ELSE [ok |-> FALSE, text |-> "", cache |-> cache,
          requests |-> << [key |-> layer, ok |-> FALSE] >>]

\* getCUESchema from the return of http.Get on: the body is put in the cache
\* under the layer, without a second look at the cache
getCUESchemaResume(cache, layer, net) ==
    LET resp == HttpGet(layer, net) IN
    IF resp.ok
    THEN [ok |-> TRUE, text |-> resp.body,
          cache |-> Put(cache, layer, resp.body),
          requests |-> << [key |-> layer, ok |-> TRUE] >>]
    ELSE [ok |-> FALSE, text |-> "", cache |-> cache,
          requests |-> << [key |-> layer, ok |-> FALSE] >>]

\* validate_gemara_yaml up to http.Get in getCUESchema: the common schemas
\* are loaded, the layer schema is found missing and the request blocks
handleValidateGemaraYAMLSuspend(r, yamlContent, layer) ==
    LET dl == DownloadCommon(schemaCache, 1, EnvOK, <<>>, <<>>, <<>>)
    IN  /\ r \notin DOMAIN inflight
        /\ dl.ok
        /\ ~Has(dl.cache, layer)
        /\ schemaCache' = dl.cache
        /\ NoteFetches(dl.requests)
        /\ inflight' = Put(inflight, r,
                           [op |-> "validate_gemara_yaml", at |-> "http.Get",
                            key |-> layer, arg |-> yamlContent,
                            dl |-> [requests |-> dl.requests, texts |-> dl.texts,
                                    stages |-> dl.stages]])
        /\ UNCHANGED <<storage, storeVars, cacheVars, upstream, stored, last>>

\* validate_gemara_yaml from the return of http.Get on; `replaced` is the
\* text the cache held for the layer when this request wrote its own
handleValidateGemaraYAMLResume(r) ==
    /\ r \in DOMAIN inflight
    /\ inflight[r].at = "http.Get"
    /\ LET q == inflight[r]
           got == getCUESchemaResume(schemaCache, q.key, NetOK)
           res == PerformCUEValidationTail(q.arg, q.key, EnvOK, q.dl, got)
       IN  /\ schemaCache' = res.cache
           /\ NoteFetches(got.requests)
           /\ last' = Outcome("validate_gemara_yaml", q.key, "", q.arg, EnvOK, TRUE,
                              [Valid |-> res.Valid, Error |-> res.Error,
                               Errors |-> res.Errors, requests |-> res.requests,
                               stages |-> res.stages, texts |-> res.texts,
                               replaced |-> IF Has(schemaCache, q.key)
                                            THEN schemaCache[q.key] ELSE ""])
    /\ inflight' = Remove(inflight, r)
    /\ UNCHANGED <<storage, storeVars, cacheVars, upstream, stored>>

\* get_layer1_guidance up to storage.Retrieve: the id is found missing from
\* the cache and the request blocks in the store
handleGetLayer1GuidanceSuspend(r, guidanceID) ==
    /\ r \notin DOMAIN inflight
    /\ guidanceID # ""
    /\ ~Has(layer1Guidance, guidanceID)
    /\ storage
    /\ inflight' = Put(inflight, r,
                       [op |-> "get_layer1_guidance", at |-> "storage.Retrieve",
                        key |-> guidanceID, arg |-> "", dl |-> <<>>])
    /\ UNCHANGED <<storage, storeVars, cacheVars, schemaCache, upstream, fetched,
                   stored, last>>

\* get_layer1_guidance from the return of storage.Retrieve on
handleGetLayer1GuidanceResume(r) ==
    /\ r \in DOMAIN inflight
    /\ inflight[r].at = "storage.Retrieve"
    /\ LET guidanceID == inflight[r].key
           retrieved == Retrieve(files, index, 1, guidanceID, "ok")
       IN  IF retrieved.ok
           THEN /\ layer1Guidance' = Put(layer1Guidance, guidanceID, retrieved.doc)
                /\ last' = Outcome("get_layer1_guidance", 1, guidanceID, "store",
                                   EnvOK, TRUE, retrieved.doc)
           ELSE /\ last' = Outcome("get_layer1_guidance", 1, guidanceID, "",
                                   EnvOK, FALSE, "not found")
                /\ UNCHANGED layer1Guidance
    /\ inflight' = Remove(inflight, r)
    /\ UNCHANGED <<storage, storeVars, layer2Catalogs, layer3Policies, schemaCache,
                   upstream, fetched, stored>>

-----------------------------------------------------------------------------
(* Construction: NewGemaraAuthoringTools, LoadArtifactsDir.                *)

\* LoadArtifactsDir for one layer directory: every file that decodes and has
\* a metadata.id is put in the cache under that id; the rest is skipped
LoadArtifactsDir(fs, layer) ==
    LET good == {id \in DOMAIN fs[layer] :
                    Decodable(fs[layer][id]) /\ Decode(layer, fs[layer][id]).id # ""}
    IN  [id \in good |-> Decode(layer, fs[layer][id])]

Started == [op |-> "start", layer |-> 0, id |-> "", arg |-> "", env |-> EnvOK,
            ok |-> TRUE, out |-> "", after |-> <<>>]

\* the state after NewGemaraAuthoringTools on an empty artifacts directory
Init ==
    /\ storage \in BOOLEAN
    /\ files = [l \in Layers |-> EmptyMap]
    /\ index = [l \in Layers |-> EmptyMap]
    /\ layer1Guidance = LoadArtifactsDir(files, 1)
    /\ layer2Catalogs = LoadArtifactsDir(files, 2)
    /\ layer3Policies = LoadArtifactsDir(files, 3)
    /\ schemaCache = EmptyMap
    /\ upstream = [k \in SchemaKeys |-> "v1"]
    /\ fetched = [k \in SchemaKeys |-> 0]
    /\ stored = EmptyMap
    /\ last = Started
    /\ inflight = EmptyMap

\* the process ends and NewGemaraAuthoringTools runs again on the artifacts
\* directory as the store left it: fresh maps, filled by LoadArtifactsDir
NewGemaraAuthoringTools ==
    /\ storage' \in BOOLEAN
    /\ UNCHANGED <<storeVars, upstream, stored>>
    /\ layer1Guidance' = LoadArtifactsDir(files, 1)
    /\ layer2Catalogs' = LoadArtifactsDir(files, 2)
    /\ layer3Policies' = LoadArtifactsDir(files, 3)
    /\ schemaCache' = EmptyMap
    /\ fetched' = [k \in SchemaKeys |-> 0]
    /\ last' = Started
    /\ inflight' = EmptyMap

\* the remote source publishes a new text of one schema
Publish(key, text) ==
    /\ upstream[key] # text
    /\ upstream' = [upstream EXCEPT ![key] = text]
    /\ UNCHANGED <<storage, storeVars, cacheVars, schemaCache, fetched, stored,
                   last, inflight>>

-----------------------------------------------------------------------------
(* Inputs.                                                                 *)

Guidance(id, title, fmt) ==
    [wellFormed |-> TRUE, fmt |-> fmt, id |-> id, title |-> title,
     families |-> <<>>, guidanceRefs |-> <<>>, controlRefs |-> <<>>]

Malformed(yaml) == [yaml EXCEPT !.wellFormed = FALSE]

GuidanceIds == {"a", "b"}

\* complete layer-1 documents: two titles under one id, and a second id
Layer1Docs ==
    {Guidance("a", "T1", "alt"), Guidance("a", "T2", "alt"),
     Guidance("b", "T1", "alt")}

\* one text of each defective kind: no metadata.id, no title, a title of the
\* wrong type, not YAML at all, nothing
Layer1Defects ==
    {Guidance("", "T1", "alt"),
     Guidance("a", MissingField, "alt"),
     Guidance("a", WrongType, "alt"),
     Malformed(Guidance("a", "T1", "alt")),
     NoContent}

\* files given to load_layer1_from_file
Layer1Files ==
    {Guidance("a", "T1", "alt"), Guidance("b", "T1", "canon")} \cup Layer1Defects

IOFails == [EnvOK EXCEPT !.io = "fail"]
NetFails(key, kind) == [EnvOK EXCEPT !.net = [fail |-> {key}, kind |-> kind]]
FsFails(what) == [EnvOK EXCEPT !.fs = what]

\* the environment of one call that only reads or writes the store
IOEnvs == {EnvOK, IOFails}

-----------------------------------------------------------------------------
(* Spec: the layer-1 handlers over the store and the guidance cache.       *)

Next ==
    \/ \E y \in Layer1Docs, e \in IOEnvs : handleStoreLayer1YAML(y, e)
    \/ \E y \in Layer1Defects : handleStoreLayer1YAML(y, EnvOK)
    \/ \E f \in Layer1Files, e \in IOEnvs : handleLoadLayer1FromFile(f, e)
    \/ \E id \in GuidanceIds \cup {""}, e \in IOEnvs : handleGetLayer1Guidance(id, e)
    \/ \E e \in IOEnvs : handleListLayer1Guidance(e)
    \/ \E id \in GuidanceIds :
           handleGetArtifactRelationships(id, "layer1", <<>>, <<>>)
    \/ NewGemaraAuthoringTools

Spec == Init /\ [][Next]_vars

-----------------------------------------------------------------------------
(* SpecRel: the three artifact caches and the relationship resolver.       *)

Control(id, title, mappings) == [id |-> id, title |-> title, mappings |-> mappings]

\* a catalog text with one control family
Catalog(id, title, controls) ==
    [wellFormed |-> TRUE, fmt |-> "alt", id |-> id, title |-> title,
     families |-> << [controls |-> controls] >>,
     guidanceRefs |-> <<>>, controlRefs |-> <<>>]

Policy(id, title, guidanceRefs, controlRefs) ==
    [wellFormed |-> TRUE, fmt |-> "alt", id |-> id, title |-> title,
     families |-> <<>>, guidanceRefs |-> guidanceRefs, controlRefs |-> controlRefs]

\* the guidance document "g"
RelGuidance == Guidance("g", "G", "alt")

\* catalog k1: control c maps guidance g twice, control d has a mapping
\* without a reference id and one to the unknown guidance h
RelCatalog1 ==
    Catalog("k1", "K1", << Control("c", "C in k1", <<"g", "g">>),
                           Control("d", "D", <<"", "h">>) >>)

\* catalog k2: a control with the id c again, without mappings, and in a
\* second control family a control e that maps guidance g
RelCatalog2 ==
    [Catalog("k2", "K2", <<>>) EXCEPT
        !.families = << [controls |-> << Control("c", "C in k2", <<>>) >>],
                        [controls |-> << Control("e", "E", <<"g">>) >>] >>]

\* policy p: references guidance g and h, control c, the unknown control
\* ctrl-missing, and has a control reference without a reference id
RelPolicy == Policy("p", "P", <<"g", "h">>, <<"c", "ctrl-missing", "">>)

\* policy q: references control c too, twice, and control e, and guidance g
\* twice
RelPolicy2 == Policy("q", "Q", <<"g", "g">>, <<"e", "c", "c">>)

RelCatalogs == {RelCatalog1, RelCatalog2}

\* the ids and types given to get_artifact_relationships
RelIds == {"g", "c", "d", "e", "p", "q", ""}
\* artifact_type arguments that are rejected
RelBadTypes == {"", "layer4"}

NextRel ==
    \/ handleStoreLayer1YAML(RelGuidance, EnvOK)
    \/ handleStoreLayer2YAML(RelCatalog1, EnvOK)
    \/ handleLoadLayer1FromFile(RelGuidance, EnvOK)
    \/ \E f \in RelCatalogs \cup {Catalog("", "K", <<>>)} : handleLoadLayer2FromFile(f)
    \/ \E f \in {RelPolicy, RelPolicy2, Malformed(RelPolicy),
                   Policy("", "P", <<>>, <<>>)} :
           handleLoadLayer3FromFile(f)
    \/ handleGetLayer1Guidance("g", EnvOK)
    \/ \E id \in RelIds, t \in ArtifactTypes :
         \E order \in Orders(DOMAIN layer2Catalogs),
            porder \in Orders(DOMAIN layer3Policies) :
           handleGetArtifactRelationships(id, t, order, porder)
    \/ \E t \in RelBadTypes : handleGetArtifactRelationships("g", t, <<>>, <<>>)
    \/ NewGemaraAuthoringTools

SpecRel == Init /\ [][NextRel]_vars

-----------------------------------------------------------------------------
(* SpecGate: the three store_layerN_yaml handlers on good and defective    *)
(* content, with failing schema fetches, temporary files and store IO.     *)

\* one complete document per layer: the catalog maps the guidance document,
\* the policy references the guidance document and a control of the catalog
GateDoc(layer) ==
    IF layer = 1 THEN RelGuidance
    ELSE IF layer = 2 THEN RelCatalog1
    ELSE RelPolicy

\* defective variants of the document: a required field missing, a field of
\* the wrong type, not YAML, no metadata.id, and no content at all
GateDefects(layer) ==
    IF layer = 1
    THEN {[GateDoc(1) EXCEPT !.title = MissingField],
          [GateDoc(1) EXCEPT !.title = WrongType],
          Malformed(GateDoc(1)), [GateDoc(1) EXCEPT !.id = ""], NoContent}
    ELSE IF layer = 2
    THEN {[GateDoc(2) EXCEPT !.title = MissingField], NoContent}
    ELSE {[GateDoc(3) EXCEPT !.title = WrongType], [GateDoc(3) EXCEPT !.id = ""]}

\* the environments of the calls that submit the complete document
GateEnvs(layer) ==
    IF layer = 1 THEN {EnvOK, IOFails, FsFails("writeData")}
    ELSE IF layer = 2 THEN {EnvOK, NetFails(KeyMapping, "status")}
    ELSE {EnvOK, IOFails, NetFails(3, "read")}

\* the ids given to get_layer1_guidance: the document's, an unknown one, none
GateIds == {"g", "zz", ""}

NextGate ==
    \/ \E e \in GateEnvs(1) : handleStoreLayer1YAML(GateDoc(1), e)
    \/ \E y \in GateDefects(1) : handleStoreLayer1YAML(y, EnvOK)
    \/ \E e \in GateEnvs(2) : handleStoreLayer2YAML(GateDoc(2), e)
    \/ \E y \in GateDefects(2) : handleStoreLayer2YAML(y, EnvOK)
    \/ \E e \in GateEnvs(3) : handleStoreLayer3YAML(GateDoc(3), e)
    \/ \E y \in GateDefects(3) : handleStoreLayer3YAML(y, EnvOK)
    \/ \E id \in GateIds : handleGetLayer1Guidance(id, EnvOK)
    \/ \E order \in Orders(DOMAIN layer2Catalogs),
          porder \in Orders(DOMAIN layer3Policies) :
           handleGetArtifactRelationships("zz", "layer2", order, porder)
    \/ NewGemaraAuthoringTools

SpecGate == Init /\ [][NextGate]_vars

-----------------------------------------------------------------------------
(* SpecSchema: validate_gemara_yaml against a remote schema source whose   *)
(* texts change and whose requests fail.                                   *)

ValDoc == Guidance("a", "T1", "alt")

ValDefects ==
    {[ValDoc EXCEPT !.title = MissingField], [ValDoc EXCEPT !.title = WrongType],
     Malformed(ValDoc), NoContent}

\* the layer arguments: two layers with a schema, and one out of range
ValLayers == {0, 1, 4}

\* the network of the calls that submit the complete document: each kind of
\* failed request, on a common schema and on a layer schema
ValNetEnvs ==
    {EnvOK, NetFails(KeyBase, "transport"), NetFails(KeyMapping, "status"),
     NetFails(1, "read")}

\* each failure of the temporary directory and its files
ValFsEnvs == {FsFails(f) : f \in FsFailures}

\* the schemas the remote source republishes, and the texts it gives them
PublishKeys == {KeyMetadata, 4}
PublishTexts(key) ==
    IF key = KeyMetadata THEN {"v1", "v2"} ELSE SchemaTexts \ {"v2"}

NextSchema ==
    \/ \E l \in ValLayers, e \in ValNetEnvs : handleValidateGemaraYAML(ValDoc, l, e)
    \/ \E e \in ValFsEnvs : handleValidateGemaraYAML(ValDoc, 1, e)
    \/ \E y \in ValDefects, l \in ValLayers : handleValidateGemaraYAML(y, l, EnvOK)
    \/ \E k \in PublishKeys : \E t \in PublishTexts(k) : Publish(k, t)
    \/ handleLoadLayer1FromFile(ValDoc, EnvOK)
    \/ NewGemaraAuthoringTools

SpecSchema == Init /\ [][NextSchema]_vars

-----------------------------------------------------------------------------
(* SpecLayer2: the layer-2 store and load handlers and the layer-2 read    *)
(* handlers.                                                               *)

\* the control ids given to get_layer2_control
Layer2Ids == {"c", "d", "zz", ""}

\* the layer1_reference filters given to list_layer2_controls
Layer2Filters == {"", "g", "h", "zz"}

\* the guidance documents loaded next to the catalogs: g, and h, which
\* control d maps in its second guideline mapping
Layer2Guidance == {RelGuidance, Guidance("h", "H", "alt")}

NextLayer2 ==
    \/ handleStoreLayer2YAML(RelCatalog1, EnvOK)
    \/ \E f \in RelCatalogs : handleLoadLayer2FromFile(f)
    \/ \E id \in Layer2Ids : \E order \in Orders(DOMAIN layer2Catalogs) :
           handleGetLayer2Control(id, order)
    \/ \E ref \in Layer2Filters : \E order \in Orders(DOMAIN layer2Catalogs) :
           handleListLayer2Controls(ref, order)
    \/ \E id \in Layer2Ids : \E order \in Orders(DOMAIN layer2Catalogs) :
           handleGetLayer2GuidelineMappings(id, order)
    \/ \E id \in Layer2Ids : \E order \in Orders(DOMAIN layer2Catalogs) :
           handleGetArtifactRelationships(id, "layer2", order, <<>>)
    \/ \E f \in Layer2Guidance : handleLoadLayer1FromFile(f, EnvOK)
    \/ \E id \in Layer2Filters : \E order \in Orders(DOMAIN layer2Catalogs) :
           handleGetArtifactRelationships(id, "layer1", order, <<>>)
    \/ NewGemaraAuthoringTools

SpecLayer2 == Init /\ [][NextLayer2]_vars

-----------------------------------------------------------------------------
(* SpecRead: the read handlers of layer 1 (get, list, search, resolve)     *)
(* next to the writes that feed them, with and without a store.            *)

\* the documents stored, and the file loaded: one id under two titles
ReadDocs == {Guidance("a", "T1", "alt"), Guidance("a", "T2", "alt")}
ReadFile == Guidance("b", "T1", "alt")

\* the search terms: one in upper case matching both titles, one matching a
\* single title, one matching none, and none
SearchTerms == {"T", "t2", "zz", ""}

\* a document that fails validation: its title is missing
ReadDefect == Guidance("a", MissingField, "alt")

NextRead ==
    \/ \E y \in ReadDocs \cup {ReadDefect} : handleStoreLayer1YAML(y, EnvOK)
    \/ handleStoreLayer3YAML(Policy("a", "P", <<>>, <<>>), EnvOK)
    \/ \E e \in IOEnvs : handleLoadLayer1FromFile(ReadFile, e)
    \/ handleLoadLayer3FromFile(Policy("b", "P", <<>>, <<>>))
    \/ \E id \in GuidanceIds : handleGetLayer1Guidance(id, EnvOK)
    \/ \E e \in IOEnvs : handleListLayer1Guidance(e)
    \/ \E t \in SearchTerms, e \in IOEnvs : handleSearchLayer1Guidance(t, e)
    \/ \E id \in GuidanceIds :
           handleGetArtifactRelationships(id, "layer1", <<>>, <<>>)
    \/ NewGemaraAuthoringTools

SpecRead == Init /\ [][NextRead]_vars

-----------------------------------------------------------------------------
(* Properties.                                                             *)

\* the last operation wrote layer 1 of the store: a successful
\* store_layer1_yaml, or a load_layer1_from_file whose Add succeeded
WroteLayer1(l) ==
    \/ l.op = "store_layer1_yaml" /\ l.ok
    \/ l.op = "load_layer1_from_file" /\ l.ok /\ storage /\ l.env.io = "ok"

\* the ids list_layer1_guidance reports
ListIds1 == {e.ID : e \in Layer1Entries}

\* the ids of a layer with at least one successful store write
StoredIds(layer) == {p[2] : p \in {q \in DOMAIN stored : q[1] = layer}}

\* a successful store_layer1_yaml of d directly followed by a
\* get_layer1_guidance of d's id whose store IO works
StoreThenGet ==
    /\ last.op = "store_layer1_yaml" /\ last.ok
    /\ last'.op = "get_layer1_guidance" /\ last'.id = last.id
    /\ last'.env.io = "ok"

\* C1 as stated: round trip in any state: a successful storeRaw of d followed
\* by a read of its id through get_layer1_guidance yields the content of d.
C1_RoundTripAnyState ==
    [][StoreThenGet => (last'.ok /\ last'.out = Decode(1, last.arg))]_vars

\* C1, amended: the store holds d byte for byte after a successful storeRaw,
\* and the read that follows yields the content of d when the id is not in
\* the guidance cache; a cached id is answered from the cache.
C1_RoundTripOnMiss ==
    [][StoreThenGet =>
          /\ files[1][last.id] = last.arg
          /\ files'[1][last.id] = last.arg
          /\ IF Has(layer1Guidance, last.id)
             THEN last'.ok /\ last'.out = layer1Guidance[last.id]
             ELSE last'.ok /\ last'.out = Decode(1, last.arg)]_vars

\* C1 witness: a read served from the store returned the document that the
\* text stored under the id, in the author's layout, decodes to
C1_Witness ==
    /\ last.op = "get_layer1_guidance" /\ last.ok /\ last.arg = "store"
    /\ Has(stored, <<1, last.id>>)
    /\ files[1][last.id].fmt = "alt"
    /\ last.out = Decode(1, files[1][last.id])

C4_IdempotentReStore ==
    [][(WroteLayer1(last)' /\ last' # last /\ Has(index[1], last'.id)) =>
          /\ Decode(1, files'[1][last'.id]) = Decode(1, last'.arg)
          /\ last'.op = "store_layer1_yaml" => files'[1][last'.id] = last'.arg
          /\ {e \in Layer1Entries' : e.ID = last'.id}
                = {[ID |-> last'.id, Layer |-> 1,
                    Title |-> Decode(1, last'.arg).title]}
          /\ Cardinality(Layer1Entries') = Cardinality(ListIds1')]_vars

\* C4 witness: the second successful write of an id replaced content with a
\* different title, and the listing still has one entry for it
C4_Witness ==
    /\ WroteLayer1(last)
    /\ Has(stored, <<1, last.id>>) /\ stored[<<1, last.id>>] >= 2
    /\ Has(layer1Guidance, last.id)
    /\ layer1Guidance[last.id].title # Decode(1, files[1][last.id]).title
    /\ Cardinality({e \in Layer1Entries : e.ID = last.id}) = 1

\* the step is a get_layer1_guidance call with an id
GetStep == last'.op = "get_layer1_guidance" /\ last'.id # ""

\* the call described by l, a get of id, asked the store to retrieve it: the
\* id was not cached and there is a store (l.arg is "cache" for a cache hit)
AskedStore(l, id) ==
    l.op = "get_layer1_guidance" /\ l.id = id /\ l.arg # "cache" /\ storage

\* what C13 says of one get: a cached id is answered from the cache, whatever
\* the store's IO would do; on a miss the store is asked, and the document it
\* retrieves is put in the cache and returned
GetFillsOnMiss ==
    GetStep =>
        /\ UNCHANGED <<files, index>>
        /\ IF Has(layer1Guidance, last'.id)
           THEN /\ last'.ok /\ last'.arg = "cache"
                /\ last'.out = layer1Guidance[last'.id]
                /\ UNCHANGED layer1Guidance
           ELSE LET retrieved ==
                        Retrieve(files, index, 1, last'.id, last'.env.io)
                IN  IF storage /\ retrieved.ok
                    THEN /\ last'.ok /\ last'.arg = "store"
                         /\ last'.out = retrieved.doc
                         /\ layer1Guidance' =
                               Put(layer1Guidance, last'.id, retrieved.doc)
                    ELSE /\ ~last'.ok /\ last'.arg = ""
                         /\ UNCHANGED layer1Guidance

Layer1Changed(id) ==
    \/ Has(files'[1], id) /\ (Has(files[1], id) => files'[1][id] # files[1][id])
    \/ Has(index'[1], id) /\ (Has(index[1], id) => index'[1][id] # index[1][id])
    \/ /\ Has(layer1Guidance', id)
       /\ Has(layer1Guidance, id) => layer1Guidance'[id] # layer1Guidance[id]

\* the step is a successful submission under id (store_layer1_yaml or
\* load_layer1_from_file) of content that passes validation for layer 1
ValidSubmission(id) ==
    /\ last'.op \in {"store_layer1_yaml", "load_layer1_from_file"}
    /\ last'.ok /\ last'.id = id
    /\ PerformCUEValidation(schemaCache, last'.arg, 1, EnvOK).Valid

\* the step only copies into the cache what the store holds under id
CachedFromStore(id) ==
    /\ UNCHANGED <<files, index>>
    /\ Has(files[1], id) /\ Has(layer1Guidance', id)
    /\ layer1Guidance'[id] = Decode(1, files[1][id])

\* C17 as stated: every artifact that is retrievable (in the store index or
\* in a cache) was created by a submission whose content passed schema
\* validation for its layer, and the content held under an id changes only
\* through a full re-submission under that id.
C17_OnlyValidatedContent ==
    [][\A id \in (DOMAIN files'[1]) \cup (DOMAIN index'[1])
                    \cup (DOMAIN layer1Guidance') :
          Layer1Changed(id) => (ValidSubmission(id) \/ CachedFromStore(id))]_vars

\* the step is a store_layer1_yaml or load_layer1_from_file call that reaches
\* the store's write (StoreRawYAML, Add), and the write fails
StoreWriteFails ==
    /\ storage /\ last'.env.io = "fail"
    /\ last'.arg.wellFormed /\ last'.arg.id # ""
    /\ \/ /\ last'.op = "store_layer1_yaml"
          /\ PerformCUEValidation(schemaCache, last'.arg, 1, last'.env).Valid
       \/ last'.op = "load_layer1_from_file" /\ Decodable(last'.arg)

\* C19 as stated: when the store write fails during add (load-from-file
\* flow) or storeRaw, the operation returns a failure result and the artifact
\* does not become visible to later reads: the store, its index and the
\* guidance cache are as before.
C19_StorageFailureAborts ==
    [][StoreWriteFails =>
          /\ ~last'.ok
          /\ UNCHANGED <<files, index, layer1Guidance>>]_vars

\* the operations that look a control up by its id
Layer2Lookups == {"get_layer2_control", "get_layer2_guideline_mappings",
                  "get_artifact_relationships"}

\* C27: layer-2 lookups are deterministic: a lookup of control id C that
\* directly follows the same lookup of C, the caches unchanged in between,
\* gives the answer the earlier one gave (the same control, catalog and
\* title), also when C is in more than one cached catalog.
C27_Layer2LookupDeterministic ==
    [][(/\ last.op \in Layer2Lookups /\ last.layer = 2
        /\ last'.op = last.op /\ last'.layer = 2 /\ last'.id = last.id
        /\ UNCHANGED cacheVars)
          => (last'.ok = last.ok /\ last'.out = last.out)]_vars

\* the controls of a list, as <<catalog id, control id>> pairs
ControlsListed(out) == {<<out[i].catalog_id, out[i].control_id>> : i \in 1..Len(out)}

\* the controls of the lines of a ReferencedBy list
ControlsReferring(edges) == {<<edges[i].catalog, edges[i].id>> : i \in 1..Len(edges)}

\* C28: the two reverse lookups agree: for every cached guidance document G,
\* the controls list_layer2_controls returns for layer1_reference = G are the
\* controls in the referencedBy of resolve(G, layer1), whatever the order of
\* the two loops over the catalogs.
C28_ReverseLookupsAgree ==
    \A G \in (DOMAIN layer1Guidance) \ {""} :
        \A o1 \in Orders(DOMAIN layer2Catalogs) :
            \A o2 \in Orders(DOMAIN layer2Catalogs) :
                LET listed == FilteredControls(G, o1)
                    resolved == buildLayer1Relationships(G, o2)
                IN  /\ resolved.ok
                    /\ {<<listed[i].catalog, listed[i].control.id>> :
                            i \in 1..Len(listed)}
                          = ControlsReferring(resolved.ReferencedBy)
                    /\ (last.op = "list_layer2_controls" /\ last.arg = G) =>
                          ControlsListed(last.out)
                              = ControlsReferring(resolved.ReferencedBy)
                    /\ (last.op = "get_artifact_relationships" /\ last.layer = 1
                            /\ last.id = G /\ last.ok) =>
                          ControlsReferring(last.out.ReferencedBy)
                              = {<<listed[i].catalog, listed[i].control.id>> :
                                    i \in 1..Len(listed)}

\* C28 witness: list_layer2_controls with the cached guidance h as filter
\* returned control d, which maps h in its second guideline mapping, while
\* both catalogs are cached
C28_Witness ==
    /\ last.op = "list_layer2_controls" /\ last.arg = "h"
    /\ Has(layer1Guidance, "h")
    /\ DOMAIN layer2Catalogs = {"k1", "k2"}
    /\ ControlsListed(last.out) = {<<"k1", "d">>}

-----------------------------------------------------------------------------
(* SpecRace: two requests side by side, each cut at its blocking call,     *)
(* while the remote source republishes and documents are stored.           *)

NextRace ==
    \/ \E r \in Requests : handleValidateGemaraYAMLSuspend(r, ValDoc, 1)
    \/ \E r \in Requests : handleValidateGemaraYAMLResume(r)
    \/ \E r \in Requests : handleGetLayer1GuidanceSuspend(r, "a")
    \/ \E r \in Requests : handleGetLayer1GuidanceResume(r)
    \/ \E t \in {"v1", "v2"} : Publish(1, t)
    \/ \E y \in ReadDocs : handleStoreLayer1YAML(y, EnvOK)
    \/ NewGemaraAuthoringTools

SpecRace == Init /\ [][NextRace]_vars

-----------------------------------------------------------------------------
(* Properties of requests side by side (SpecRace).                         *)

\* the requests that returned in this step
Returned == {r \in DOMAIN inflight : r \notin DOMAIN inflight' /\ last'.op # "start"}

\* C25: nothing serializes requests on the caches.  A request that found its
\* key missing and blocked writes the cache when it returns, whatever the
\* cache holds by then: the schema cache gets the text it fetched under the
\* schema's key, the guidance cache the document it retrieved under the id,
\* so of two requests blocked on the same key both fetch and both write and
\* the later write replaces the earlier.
C25_UnserializedRace ==
    [][\A r \in Returned :
          LET q == inflight[r]
              retrieved == Retrieve(files, index, 1, q.key, "ok")
          IN  /\ q.at = "http.Get" =>
                    /\ Has(schemaCache', q.key)
                    /\ schemaCache'[q.key] = upstream[q.key]
                    /\ fetched'[q.key] = Min(MaxFetched, fetched[q.key] + 1)
              /\ (q.at = "storage.Retrieve" /\ retrieved.ok) =>
                    /\ Has(layer1Guidance', q.key)
                    /\ layer1Guidance'[q.key] = retrieved.doc]_vars

\* C25 witness: two requests fetched the schema of one layer in one process
\* and the one that returned last replaced the text the other had cached
C25_Witness ==
    /\ last.op = "validate_gemara_yaml" /\ last.ok
    /\ fetched[last.layer] >= 2
    /\ "replaced" \in DOMAIN last.out
    /\ last.out.replaced \notin {"", schemaCache[last.layer]}

-----------------------------------------------------------------------------
(* Properties of the layer-1 read handlers (SpecRead).                     *)

ReadOps == {"list_layer1_guidance", "get_layer1_guidance",
            "search_layer1_guidance", "get_artifact_relationships"}

\* C26: list, get, search and resolve leave the store, its index and every
\* cache entry as they were; all they change is the guidance cache, by
\* putting the document just retrieved from the store under an id that was
\* missing from it.
C26_ReadsOnlyFill ==
    [][last'.op \in ReadOps =>
          /\ UNCHANGED <<storage, files, index, layer2Catalogs, layer3Policies,
                         schemaCache, stored>>
          /\ \A id \in DOMAIN layer1Guidance :
                Has(layer1Guidance', id) /\ layer1Guidance'[id] = layer1Guidance[id]
          /\ \A id \in (DOMAIN layer1Guidance') \ (DOMAIN layer1Guidance) :
                /\ storage
                /\ Retrieve(files, index, 1, id, "ok").ok
                /\ layer1Guidance'[id] = Retrieve(files, index, 1, id, "ok").doc]_vars

\* C26 witness: list ran over an index entry whose document is cached with
\* another title than the store holds, and the cached document is still there
C26_Witness ==
    /\ last.op = "list_layer1_guidance" /\ storage
    /\ Has(layer1Guidance, "a") /\ Has(files[1], "a") /\ Has(index[1], "a")
    /\ layer1Guidance["a"] # Decode(1, files[1]["a"])

\* the cache map of a layer
CacheOf(l) ==
    IF l = 1 THEN layer1Guidance ELSE IF l = 2 THEN layer2Catalogs ELSE layer3Policies

\* the operations that store, load or fill an id in their layer
LayerOps == StoreOps \cup {"load_layer1_from_file", "load_layer3_from_file",
                           "get_layer1_guidance", "list_layer1_guidance",
                           "search_layer1_guidance"}

\* C29: layers are isolated: an operation that stores, loads or fills an id
\* in its layer leaves the cache map, the index and the stored texts of every
\* other layer as they were, and a read of id x in layer 1 (get, resolve)
\* answers with the layer-1 document cached under x, never with the policy
\* that layer 3 holds under the same id.
C29_LayersIsolated ==
    [][/\ last'.op \in LayerOps =>
            \A l \in Layers \ {last'.layer} :
                /\ CacheOf(l)' = CacheOf(l)
                /\ index'[l] = index[l]
                /\ files'[l] = files[l]
       /\ (last'.op = "get_layer1_guidance" /\ last'.ok) =>
            /\ Has(layer1Guidance', last'.id)
            /\ last'.out = layer1Guidance'[last'.id]
            /\ last'.arg = "store" => last'.out = Decode(1, files[1][last'.id])
            /\ Has(layer3Policies, last'.id) =>
                  last'.out # layer3Policies[last'.id]
       /\ (last'.op = "get_artifact_relationships" /\ last'.layer = 1 /\ last'.ok) =>
            last'.out.Title = layer1Guidance[last'.id].title]_vars

\* C29 witness: get_layer1_guidance returned the guidance document of an id
\* that the index and the cache of layer 3 hold as well, for a policy
C29_Witness ==
    /\ last.op = "get_layer1_guidance" /\ last.ok
    /\ Has(index[1], last.id) /\ Has(index[3], last.id)
    /\ Has(layer3Policies, last.id)
    /\ last.out.title # layer3Policies[last.id].title

\* C30: search is a restriction of list: every id search_layer1_guidance
\* returns is the id of an entry list_layer1_guidance reports on the state
\* the search ran on, and its document was in the cache or was delivered by
\* the store; an entry whose document can be had from neither is not
\* returned.
C30_SearchWithinList ==
    [][(last'.op = "search_layer1_guidance" /\ last'.ok) =>
          \A e \in last'.out :
              /\ e.ID \in {x.ID : x \in Layer1Entries}
              /\ \/ Has(layer1Guidance, e.ID)
                 \/ storage /\ Retrieve(files, index, 1, e.ID, last'.env.io).ok
              /\ Has(layer1Guidance', e.ID)
              /\ e.Title = layer1Guidance'[e.ID].title]_vars

\* C30 witness: a search returned a document while the index holds another
\* entry with a matching title that is not cached and that the store could
\* not deliver
C30_Witness ==
    /\ last.op = "search_layer1_guidance" /\ last.ok /\ storage
    /\ last.out # {}
    /\ \E id \in DOMAIN index[1] :
          /\ TitleMatch(index[1][id], last.arg)
          /\ ~Has(layer1Guidance, id)
          /\ id \notin {e.ID : e \in last.out}

\* the entries of the guidance cache, as list and search build them when
\* there is no store
CacheEntries ==
    {[ID |-> id, Title |-> layer1Guidance[id].title] : id \in DOMAIN layer1Guidance}

-----------------------------------------------------------------------------
(* Properties of the store handlers (SpecGate).                            *)

\* the messages of the results returned once StoreRawYAML has been called
AfterStoreCall == {"Failed to store YAML", "Successfully stored and validated"}

\* C2: a store_layerN_yaml call reaches StoreRawYAML only when
\* PerformCUEValidation for its layer returned valid on the content submitted;
\* when it returned invalid, the result is an error and the store, its index
\* and the three artifact maps are as before.
C2_ValidationGate ==
    [][(last'.op \in StoreOps /\ last'.arg # NoContent) =>
          LET validationResult ==
                  PerformCUEValidation(schemaCache, last'.arg, last'.layer, last'.env)
          IN  /\ last'.out.valid = validationResult.Valid
              /\ (last'.out.msg \in AfterStoreCall \/ last'.ok
                    \/ files' # files \/ index' # index)
                     => validationResult.Valid
              /\ ~validationResult.Valid =>
                    /\ ~last'.ok
                    /\ last'.out.msg = "CUE validation failed"
                    /\ UNCHANGED <<files, index, layer1Guidance, layer2Catalogs,
                                   layer3Policies>>]_vars

\* C2 witness: a catalog or policy that fails validation was rejected while a
\* complete document is stored under its id and is cached
C2_Witness ==
    /\ last.op \in StoreOps /\ last.layer > 1
    /\ ~last.ok /\ ~last.out.valid /\ last.out.msg = "CUE validation failed"
    /\ Has(files[last.layer], last.id)
    /\ files[last.layer][last.id] = GateDoc(last.layer)
    /\ files[last.layer][last.id] # last.arg
    /\ Has(IF last.layer = 2 THEN layer2Catalogs ELSE layer3Policies, last.id)

\* the store after a StoreRawYAML of content whose IO works
StoreRawOK(st, layer, content) ==
    [files |-> StoreRawYAML(st.files, st.index, layer, content, "ok").files,
     index |-> StoreRawYAML(st.files, st.index, layer, content, "ok").index]

\* from the store as it is, storing the documents of two layers in either
\* order leaves the same store
StoreOrderIrrelevant ==
    \A l1 \in Layers : \A l2 \in Layers \ {l1} :
        LET now == [files |-> files, index |-> index]
        IN  StoreRawOK(StoreRawOK(now, l1, GateDoc(l1)), l2, GateDoc(l2))
              = StoreRawOK(StoreRawOK(now, l2, GateDoc(l2)), l1, GateDoc(l1))

\* the step is a store_layerN_yaml call with the complete document of its
\* layer, in an environment without failures
StoresGateDoc ==
    /\ last'.op \in StoreOps
    /\ last'.arg = GateDoc(last'.layer) /\ last'.env = EnvOK

\* C14: referential integrity is never a storage precondition: storing a
\* schema-valid guidance document, catalog or policy succeeds whenever there
\* is a store, whether or not what it references is stored; the store that
\* results, and so the relationship graph resolved from it, does not depend on
\* the order of two stores, and no store changes a resolve result.
C14_NoReferentialPrecondition ==
    [][StoresGateDoc =>
          /\ last'.ok <=> storage
          /\ last'.ok =>
                /\ [files |-> files', index |-> index']
                      = StoreRawOK([files |-> files, index |-> index],
                                   last'.layer, last'.arg)
                /\ StoreOrderIrrelevant
                /\ last'.after # <<>> =>
                      files'[last'.after[1]][last'.after[2]]
                          = GateDoc(last'.after[1])
                /\ UNCHANGED <<layer1Guidance, layer2Catalogs, layer3Policies>>
                /\ \A id \in RelIds, t \in ArtifactTypes :
                      \A order \in Orders(DOMAIN layer2Catalogs),
                         porder \in Orders(DOMAIN layer3Policies) :
                        Resolve(id, t, order, porder)'
                            = Resolve(id, t, order, porder)]_vars

\* C14 witness: the guidance document was stored for the first time directly
\* after the catalog whose control maps it; the store holds both
C14_Witness ==
    /\ last.op = "store_layer1_yaml" /\ last.ok /\ last.after = <<2, "k1">>
    /\ stored[<<1, last.id>>] = 1
    /\ \E c \in Range(ControlsOf(Decode(2, files[2]["k1"]))) :
           controlReferencesLayer1(c, last.id)
    /\ files[1][last.id] = last.arg

\* the text of the error result of the call described by l
ErrorText(l) == IF l.op \in StoreOps THEN l.out.msg ELSE l.out

\* the error results of the handlers of SpecGate
ErrorTexts ==
    {"yaml_content is required", "CUE validation failed",
     "Failed to parse YAML to extract metadata",
     "YAML content must include metadata.id", "Storage not available",
     "Failed to store YAML", "guidance_id is required", "not found",
     "failed to build relationships"}

-----------------------------------------------------------------------------
(* Properties of the schema source and the validator (SpecSchema).         *)

\* the step is a validate_gemara_yaml call that ran PerformCUEValidation (the
\* remote source republishing a text leaves `last` as it is)
ValidateStep ==
    last'.op = "validate_gemara_yaml" /\ last'.ok /\ upstream' = upstream

\* the requests of a call for the schema behind cache key k
RequestsFor(l, k) == {i \in 1..Len(l.out.requests) : l.out.requests[i].key = k}

\* C8: within a process each schema is fetched successfully at most once; a
\* cached schema is never requested again and its cached text never changes,
\* whatever the remote source serves by then; a schema entering the cache holds
\* the text served at its one successful request.
C8_Memoization ==
    [][/\ \A k \in SchemaKeys : fetched'[k] <= 1
       /\ last'.op # "start" =>
             \A k \in DOMAIN schemaCache :
                 Has(schemaCache', k) /\ schemaCache'[k] = schemaCache[k]
       /\ ValidateStep =>
             /\ \A k \in DOMAIN schemaCache : RequestsFor(last', k) = {}
             /\ \A k \in (DOMAIN schemaCache') \ (DOMAIN schemaCache) :
                    /\ schemaCache'[k] = upstream[k]
                    /\ Cardinality(RequestsFor(last', k)) = 1
                    /\ fetched[k] = 0 /\ fetched'[k] = 1
             /\ last'.out.Valid =>
                    last'.out.texts
                        = <<schemaCache'[KeyBase], schemaCache'[KeyMetadata],
                            schemaCache'[KeyMapping], schemaCache'[last'.layer]>>]_vars

\* C8 witness: a validation succeeded on the cached layer schema, without a
\* request, while the remote source serves another text for it
C8_Witness ==
    /\ last.op = "validate_gemara_yaml" /\ last.ok /\ last.out.Valid
    /\ last.out.requests = <<>>
    /\ Has(schemaCache, last.layer)
    /\ schemaCache[last.layer] # upstream[last.layer]
    /\ last.out.texts[4] = schemaCache[last.layer]

\* the name of the stage that fetches the schema behind cache key k
FetchStage(k) ==
    IF k = KeyBase THEN "base.cue"
    ELSE IF k = KeyMetadata THEN "metadata.cue"
    ELSE IF k = KeyMapping THEN "mapping.cue" ELSE "layer"

FetchErrors == {"Failed to load common schema", "Failed to load CUE schema for layer"}

\* C9: a failed request (transport error, status other than 200, body read
\* error) makes the call return an error, leaves the cache without an entry
\* for the schema, is the one and last request of the call, and the next call
\* that reaches the schema requests it again.
C9_FailureNotCached ==
    [][ValidateStep =>
          /\ DOMAIN schemaCache' =
                (DOMAIN schemaCache)
                    \cup {last'.out.requests[i].key :
                            i \in {j \in 1..Len(last'.out.requests) :
                                      last'.out.requests[j].ok}}
          /\ \A i \in 1..Len(last'.out.requests) :
                ~last'.out.requests[i].ok =>
                    /\ ~last'.out.Valid /\ last'.out.Error \in FetchErrors
                    /\ ~Has(schemaCache', last'.out.requests[i].key)
                    /\ i = Len(last'.out.requests)
                    /\ Cardinality(RequestsFor(last', last'.out.requests[i].key)) = 1
          /\ (last.op = "validate_gemara_yaml" /\ last.ok) =>
                \A i \in 1..Len(last.out.requests) :
                    (/\ ~last.out.requests[i].ok
                     /\ FetchStage(last.out.requests[i].key) \in Range(last'.out.stages)
                     /\ (\/ last.out.requests[i].key \notin SchemaLayers
                         \/ last.out.requests[i].key = last'.layer))
                    => RequestsFor(last', last.out.requests[i].key) # {}]_vars

\* C9 witness: the request for mapping.cue failed with a status other than
\* 200; the two schemas fetched before it are cached, mapping.cue is not
C9_Witness ==
    /\ last.op = "validate_gemara_yaml" /\ last.ok /\ ~last.out.Valid
    /\ last.env.net = [fail |-> {KeyMapping}, kind |-> "status"]
    /\ last.out.requests # <<>>
    /\ ~last.out.requests[Len(last.out.requests)].ok
    /\ Has(schemaCache, KeyBase) /\ Has(schemaCache, KeyMetadata)
    /\ ~Has(schemaCache, KeyMapping)

\* the stages of a validation, in order
AllStages ==
    commonSchemas \o <<"layer", "build", "parse", "unify", "concrete">>

\* the schema texts a call works on once all four are fetched
CachedTexts(layer) ==
    <<schemaCache[KeyBase], schemaCache[KeyMetadata], schemaCache[KeyMapping],
      schemaCache[layer]>>

\* whether stage i of the call described by l succeeded, read off the state
\* the call left: a fetch stage succeeded when the schema is cached and its
\* temporary file was written; later stages are asked only after the fetches
StageSucceeded(l, i) ==
    IF i <= Len(commonSchemas)
    THEN Has(schemaCache, CommonKey(commonSchemas[i])) /\ l.env.fs # "writeSchema"
    ELSE IF AllStages[i] = "layer"
    THEN Has(schemaCache, l.layer) /\ l.env.fs \notin {"writeLayer", "writeData"}
    ELSE IF AllStages[i] = "build"
    THEN SchemaLoads(CachedTexts(l.layer)) /\ SchemaBuilds(CachedTexts(l.layer))
    ELSE IF AllStages[i] = "parse" THEN l.arg.wellFormed
    ELSE IF AllStages[i] = "unify" THEN Unifies(l.arg)
    ELSE Concrete(l.arg)

\* the stages up to and including the first that did not succeed
StagesRun(l) ==
    LET failing == {i \in 1..Len(AllStages) :
                        /\ \A j \in 1..(i - 1) : StageSucceeded(l, j)
                        /\ ~StageSucceeded(l, i)}
    IN  IF failing = {} THEN AllStages
        ELSE SubSeq(AllStages, 1, CHOOSE i \in failing : TRUE)

\* C10: validate returns valid exactly when every stage succeeded in order;
\* otherwise the first stage that fails ends the call with valid = false and
\* the error set, and no later stage is run.
C10_ValidIffAllStages ==
    (last.op = "validate_gemara_yaml" /\ last.ok) =>
        IF last.env.fs = "mktemp"
        THEN ~last.out.Valid /\ last.out.Error # "" /\ last.out.stages = <<>>
        ELSE /\ last.out.stages = StagesRun(last)
             /\ last.out.Valid <=>
                   \A i \in 1..Len(AllStages) : StageSucceeded(last, i)
             /\ last.out.Valid <=> last.out.Error = ""
             /\ ~last.out.Valid =>
                   ~StageSucceeded(last, Len(last.out.stages))

\* C10 witness: the layer schema did not build; the call ended at that stage
\* with the error set, before the document was parsed
C10_Witness ==
    /\ last.op = "validate_gemara_yaml" /\ last.ok /\ ~last.out.Valid
    /\ last.out.Error = "Failed to build schema"
    /\ last.out.stages = SubSeq(AllStages, 1, 5)
    /\ last.arg = ValDoc

\* C11: validation is a pure check with respect to artifact state: a
\* validate_gemara_yaml call, whatever its content, layer and outcome, leaves
\* the store, its index and the three artifact caches unchanged.
C11_ValidatePure ==
    [][last'.op = "validate_gemara_yaml" =>
          UNCHANGED <<files, index, layer1Guidance, layer2Catalogs,
                      layer3Policies>>]_vars

\* C11 witness: a document was found valid under the id of a stored and
\* cached guidance document, and the store and the cache are as they were
C11_Witness ==
    /\ last.op = "validate_gemara_yaml" /\ last.ok /\ last.out.Valid
    /\ storage /\ Has(index[1], last.arg.id) /\ Has(layer1Guidance, last.arg.id)
    /\ files[1][last.arg.id] = Encode(layer1Guidance[last.arg.id])
    /\ DOMAIN layer1Guidance = {last.arg.id}

\* the errors of the two classes of validation failure
ValidationFailures == {"Schema unification failed", "Validation failed"}

\* C21 as stated: whenever validate returns valid = false because unification
\* failed, and whenever it does because concreteness validation failed, the
\* list of detailed errors is not empty.
C21_DetailErrorsPopulated ==
    (/\ last.op = "validate_gemara_yaml" /\ last.ok
     /\ ~last.out.Valid /\ last.out.Error \in ValidationFailures)
        => last.out.Errors # <<>>

-----------------------------------------------------------------------------
(* Properties of the layer-2 read handlers (SpecLayer2).                   *)

\* the control ids of a catalog text
ControlIds(yaml) == {c.id : c \in Range(ControlsOf(Decode(2, yaml)))}

\* C12 as stated: after store_layer2_yaml succeeds for a catalog, with no
\* other operation in between, get_layer2_control finds each control id of
\* the catalog and list_layer2_controls lists them.
C12_StoreThenVerify ==
    [][(last.op = "store_layer2_yaml" /\ last.ok) =>
          /\ (last'.op = "get_layer2_control" /\ last'.id \in ControlIds(last.arg))
                => last'.ok /\ last'.out.control.id = last'.id
          /\ (last'.op = "list_layer2_controls" /\ last'.arg = "")
                => ControlIds(last.arg)
                      \subseteq {last'.out[i].control_id : i \in 1..Len(last'.out)}]_vars

-----------------------------------------------------------------------------
(* Properties of the relationship resolver (SpecRel).                      *)

\* the last operation is a get_artifact_relationships call with an id and
\* one of the three artifact types
Resolved(l) ==
    l.op = "get_artifact_relationships" /\ l.id # "" /\ l.arg \in ArtifactTypes

\* the <<catalog id, control>> pairs of the cached catalogs
CachedControls ==
    UNION {{[catalog |-> k, control |-> c] :
                c \in Range(ControlsOf(layer2Catalogs[k]))} :
           k \in DOMAIN layer2Catalogs}

\* the artifact the resolver is asked about is in the cache of its layer
SourceKnown(id, layer) ==
    IF layer = 1 THEN Has(layer1Guidance, id)
    ELSE IF layer = 2 THEN \E e \in CachedControls : e.control.id = id
    ELSE Has(layer3Policies, id)

\* C5 as stated: store guidance G through store_layer1_yaml, then a catalog
\* whose control C maps G through store_layer2_yaml, nothing in between: the
\* resolve(G, 1) that follows succeeds and lists C as a Layer 2 referrer.
C5_StoreThenResolve ==
    [][(/\ last.op = "store_layer2_yaml" /\ last.ok
        /\ last.after # <<>> /\ last.after[1] = 1
        /\ \E c \in Range(ControlsOf(Decode(2, last.arg))) :
               controlReferencesLayer1(c, last.after[2])
        /\ last'.op = "get_artifact_relationships"
        /\ last'.arg = "layer1" /\ last'.id = last.after[2])
       => /\ last'.ok
          /\ \A c \in Range(ControlsOf(Decode(2, last.arg))) :
                controlReferencesLayer1(c, last'.id) =>
                    \E i \in 1..Len(last'.out.ReferencedBy) :
                        /\ last'.out.ReferencedBy[i].id = c.id
                        /\ last'.out.ReferencedBy[i].layer = 2]_vars

\* C6 as stated: whenever guidance G and a control C with a mapping to G are
\* both in the resolver's caches, resolve(G, 1) succeeds with C in referencedBy
\* and resolve(C, 2) succeeds with G in references, marked resolved.
C6_Bidirectional ==
    Resolved(last) =>
        \A G \in DOMAIN layer1Guidance :
            \A e \in {x \in CachedControls : controlReferencesLayer1(x.control, G)} :
                /\ (last.arg = "layer1" /\ last.id = G) =>
                      /\ last.ok
                      /\ Edge(e.catalog, e.control.id, 2, TRUE)
                            \in Range(last.out.ReferencedBy)
                /\ (last.arg = "layer2" /\ last.id = e.control.id) =>
                      /\ last.ok
                      /\ Edge("", G, 1, TRUE) \in Range(last.out.References)

\* the references of the source of a successful resolve, as <<id, layer>>
\* pairs: the guidance and control references of the policy, the mappings of
\* the control; one set for each cached control with the id, since the
\* resolver reports the first it meets
SourceRefs(l) ==
    IF l.arg = "layer1" THEN {{}}
    ELSE IF l.arg = "layer2"
    THEN {{<<m, 1>> : m \in Range(e.control.mappings)} :
             e \in {x \in CachedControls : x.control.id = l.id}}
    ELSE {{<<r, 1>> : r \in Range(layer3Policies[l.id].guidanceRefs)}
          \cup {<<r, 2>> : r \in Range(layer3Policies[l.id].controlRefs)}}

\* the reference r is reported in the result with the annotation `found`
Reported(l, r, found) ==
    \E i \in 1..Len(l.out.References) :
        /\ l.out.References[i].id = r[1]
        /\ l.out.References[i].layer = r[2]
        /\ l.out.References[i].found = found

\* C7 as stated: resolve fails iff the source is not found, and every reference
\* whose target is absent from its layer is an edge annotated unresolved.
C7_ResolutionTotal ==
    Resolved(last) =>
        /\ last.ok <=> SourceKnown(last.id, last.layer)
        /\ last.ok =>
              \E refs \in SourceRefs(last) : \A r \in refs :
                  ~SourceKnown(r[1], r[2]) => Reported(last, r, FALSE)

\* C7, amended: resolve fails iff the source is not in the cache of its layer,
\* and every reference that names a target (a non-empty reference id) is an
\* edge, annotated unresolved exactly when the target is not in the cache of
\* its layer; a reference without a reference id yields no edge.
C7_ResolutionTotalNamed ==
    Resolved(last) =>
        /\ last.ok <=> SourceKnown(last.id, last.layer)
        /\ last.ok =>
              \E refs \in SourceRefs(last) :
                  /\ \A r \in refs :
                        r[1] # "" => Reported(last, r, SourceKnown(r[1], r[2]))
                  /\ \A i \in 1..Len(last.out.References) :
                        /\ last.out.References[i].id # ""
                        /\ <<last.out.References[i].id,
                             last.out.References[i].layer>> \in refs

\* the cached controls with a guideline mapping whose reference id is id
MappedTo(id) == {e \in CachedControls : id \in Range(e.control.mappings)}

\* C15: a successful resolve of a guidance document G returns no references,
\* and referencedBy holds exactly the controls, over every cached catalog and
\* every control family, with a guideline mapping whose reference id is G:
\* one line for each such control, none for any other.
C15_Layer1ReferencedBy ==
    (Resolved(last) /\ last.arg = "layer1" /\ last.ok) =>
        /\ last.out.References = <<>>
        /\ Range(last.out.ReferencedBy)
              = {Edge(e.catalog, e.control.id, 2, TRUE) : e \in MappedTo(last.id)}
        /\ Len(last.out.ReferencedBy) = Cardinality(MappedTo(last.id))

\* C15 witness: with both catalogs cached, resolve of g lists control c of k1,
\* which maps g twice, once, and control e of the second family of k2; the
\* controls without a mapping to g are not listed
C15_Witness ==
    /\ Resolved(last) /\ last.arg = "layer1" /\ last.ok /\ last.id = "g"
    /\ DOMAIN layer2Catalogs = {"k1", "k2"}
    /\ Range(last.out.ReferencedBy)
          = {Edge("k1", "c", 2, TRUE), Edge("k2", "e", 2, TRUE)}
    /\ Len(last.out.ReferencedBy) = 2

\* the cached policies with a control reference whose reference id is id
PoliciesReferencing(id) ==
    {p \in DOMAIN layer3Policies : id \in Range(layer3Policies[p].controlRefs)}

\* C16: a successful resolve of a control C returns as referencedBy exactly
\* the cached policies whose control references include C's id, one line
\* each; and for each such policy P, resolve(P, 3) succeeds and its references
\* contain an edge to a control with C's id, annotated resolved.
C16_ControlPolicyBidirectional ==
    /\ (Resolved(last) /\ last.arg = "layer2" /\ last.ok) =>
          /\ Range(last.out.ReferencedBy)
                = {Edge("", p, 3, TRUE) : p \in PoliciesReferencing(last.id)}
          /\ Len(last.out.ReferencedBy) = Cardinality(PoliciesReferencing(last.id))
          /\ \A i \in 1..Len(last.out.ReferencedBy) :
                \A order \in Orders(DOMAIN layer2Catalogs),
                   porder \in Orders(DOMAIN layer3Policies) :
                  LET r == Resolve(last.out.ReferencedBy[i].id, "layer3",
                                   order, porder)
                  IN  /\ r.ok
                      /\ \E j \in 1..Len(r.References) :
                            /\ r.References[j].id = last.id
                            /\ r.References[j].layer = 2
                            /\ r.References[j].found
    /\ (Resolved(last) /\ last.arg = "layer3" /\ last.ok) =>
          \A c \in Range(layer3Policies[last.id].controlRefs) :
              SourceKnown(c, 2) => Reported(last, <<c, 2>>, TRUE)

\* C16 witness: with both catalogs and both policies cached, resolve of
\* control c, whose id is in both catalogs, lists the policies p and q
C16_Witness ==
    /\ Resolved(last) /\ last.arg = "layer2" /\ last.ok
    /\ DOMAIN layer3Policies = {"p", "q"}
    /\ DOMAIN layer2Catalogs = {"k1", "k2"}
    /\ last.id = "c"
    /\ Range(last.out.ReferencedBy) = {Edge("", "p", 3, TRUE), Edge("", "q", 3, TRUE)}
    /\ Len(last.out.ReferencedBy) = 2

\* C18 as stated: with the store configured, no read operation reports an
\* artifact whose id is absent from the store's index for its layer: not the
\* document get_layer1_guidance returns, not the source of a successful
\* resolve, not a catalog named in its referencedBy lines.
C18_IndexOverCache ==
    storage =>
        /\ (last.op = "get_layer1_guidance" /\ last.ok) => Has(index[1], last.id)
        /\ (Resolved(last) /\ last.ok /\ last.arg = "layer1") =>
              /\ Has(index[1], last.id)
              /\ \A i \in 1..Len(last.out.ReferencedBy) :
                    Has(index[2], last.out.ReferencedBy[i].catalog)
        /\ (Resolved(last) /\ last.ok /\ last.arg = "layer3") =>
              Has(index[3], last.id)

\* the number of entries of a list of reference ids that name id
Count(refs, id) == Cardinality({i \in 1..Len(refs) : refs[i] = id})

\* the number of lines naming <<id, layer>> in a list of edges
EdgeCount(edges, id, layer) ==
    Cardinality({i \in 1..Len(edges) : edges[i].id = id /\ edges[i].layer = layer})

\* the mapping lists the references of a successful resolve of a control may
\* be built from: one for each cached control with the id
SourceMappings(l) ==
    {e.control.mappings : e \in {x \in CachedControls : x.control.id = l.id}}

\* the references of the result l have, for each id of `ids` named in refs, as
\* many lines for it as refs has entries
EdgesMatch(l, refs, layer, ids) ==
    \A id \in Range(refs) \cap ids :
        EdgeCount(l.out.References, id, layer) = Count(refs, id)

\* the ids that reference lists can hold, and those that name a target
RefIds == {"", "g", "h", "c", "e", "ctrl-missing"}
NamedRefIds == RefIds \ {""}

\* the lines of referencedBy of the result l for the control e
ReferrerCount(l, e) ==
    Cardinality({i \in 1..Len(l.out.ReferencedBy) :
                    /\ l.out.ReferencedBy[i].catalog = e.catalog
                    /\ l.out.ReferencedBy[i].id = e.control.id})

\* C22 as stated: reference edges are not de-duplicated: the number of edges
\* for a target equals the number of mapping entries naming it, for a
\* control's references, a policy's references and a guidance document's
\* referencedBy alike, and every mapping entry yields an edge.
C22_EdgePerEntry ==
    (Resolved(last) /\ last.ok) =>
        /\ last.arg = "layer2" =>
              \E refs \in SourceMappings(last) : EdgesMatch(last, refs, 1, RefIds)
        /\ last.arg = "layer3" =>
              /\ EdgesMatch(last, layer3Policies[last.id].guidanceRefs, 1, RefIds)
              /\ EdgesMatch(last, layer3Policies[last.id].controlRefs, 2, RefIds)
        /\ last.arg = "layer1" =>
              \A e \in CachedControls :
                  ReferrerCount(last, e) = Count(e.control.mappings, last.id)

\* C22, amended: in the references of a control and of a policy every
\* mapping entry with a reference id yields an edge, duplicates included, so
\* the number of edges for a target equals the number of entries naming it;
\* an entry without a reference id yields none; in the referencedBy of a
\* guidance document each control with at least one mapping naming the
\* document has one edge, however many of its entries name it.
C22_EdgePerNamedEntry ==
    (Resolved(last) /\ last.ok) =>
        /\ last.arg = "layer2" =>
              \E refs \in SourceMappings(last) :
                  /\ EdgesMatch(last, refs, 1, NamedRefIds)
                  /\ Len(last.out.References)
                        = Cardinality({i \in 1..Len(refs) : refs[i] # ""})
        /\ last.arg = "layer3" =>
              /\ EdgesMatch(last, layer3Policies[last.id].guidanceRefs, 1, NamedRefIds)
              /\ EdgesMatch(last, layer3Policies[last.id].controlRefs, 2, NamedRefIds)
              /\ EdgeCount(last.out.References, "", 1) = 0
              /\ EdgeCount(last.out.References, "", 2) = 0
        /\ last.arg = "layer1" =>
              \A e \in CachedControls :
                  ReferrerCount(last, e)
                      = IF Count(e.control.mappings, last.id) > 0 THEN 1 ELSE 0

\* C22 witness: resolve of control c of catalog k1, which maps guidance g
\* twice, returned two lines for g
C22_Witness ==
    /\ Resolved(last) /\ last.ok /\ last.arg = "layer2" /\ last.id = "c"
    /\ Has(layer1Guidance, "g")
    /\ last.out.References = << Edge("", "g", 1, TRUE), Edge("", "g", 1, TRUE) >>

\* C7 witness: resolve of policy p succeeded with the reference to the
\* unknown control ctrl-missing annotated unresolved
C7_Witness ==
    /\ Resolved(last) /\ last.ok /\ last.arg = "layer3"
    /\ \E refs \in SourceRefs(last) : <<"ctrl-missing", 2>> \in refs
    /\ Reported(last, <<"ctrl-missing", 2>>, FALSE)
    /\ Reported(last, <<"c", 2>>, TRUE)

====
